---- MODULE Spec2Model ----
(***************************************************************************)
(* A model of the agentcore-in-action example scripts.                     *)
(*                                                                         *)
(* Part I    construct.py of mcp-server-with-oauth-gateway ("mcp") and of  *)
(*           say-hello-to-authorized-customer ("hello"): provisioning,     *)
(*           config.json, cleanup.                                         *)
(* Part II   oauth-gateway-from-agent/server.py: the OAuth elicitation     *)
(*           flow of list_youtube_channels.                                *)
(* Part III  mcp_server_with_oauth_gateway/interceptor.py: the gateway     *)
(*           interceptor handler.                                          *)
(***************************************************************************)
EXTENDS Integers, Sequences, FiniteSets, TLC

VARIABLES
    \* ---- Part I: the construct scripts -------------------------------
    script,        \* which construct.py this behaviour runs: "mcp" | "hello"
    pc,            \* position of the running invocation, "idle" between runs
    args,          \* "construct" | "cleanup": whether --cleanup was given
    env,           \* [id, secret]: are the OAuth client id / secret non-empty
    config_file,   \* config.json: NoFile, or [exists |-> TRUE, data |-> dict]
    cloud,         \* the cloud resources that exist, as <<kind, n>>
    gwStatus,      \* status get_gateway reports to the running wait loop
    runNo,         \* int(time.time()) of the construct run: names its resources
    waiter_count,  \* create_gateway's poll counter (mcp)
    calls,         \* SDK calls of the current invocation, in order
    printed,       \* failure lines the current cleanup has printed
    exitStatus,    \* exit status of the last finished invocation, -1 before
    faults,        \* SDK calls that have raised although they could succeed
    \* history of Part I, read only by the properties
    configAtStart, \* config.json as the current invocation found it
    writes,        \* times the current invocation wrote config.json
    stepsDone,     \* creation steps of the current run that have returned
    created,       \* resources the latest construct run created
    createSeq,     \* every resource ever created, in creation order
    sawReady,      \* a get_gateway poll of this run returned the ready status
    lastRun,       \* how the previous invocation ended
    owed,          \* resources of a failed construct run a cleanup follows
    \* ---- Part II: list_youtube_channels ------------------------------
    epc,           \* position inside list_youtube_channels
    gwResult,      \* the gateway response under inspection
    sessions,      \* the DynamoDB session table: session_id -> item
    session_id,    \* request_uri taken from the authorization URL
    reads,         \* the statuses poll_completion has read, in order
    pollStatus,    \* what poll_completion returned
    gwCalls,       \* gateway calls of this tool invocation, with their results
    resolvedAt,    \* <<gateway calls, side effects>> made when poll_completion
                   \* returned COMPLETE in this invocation, <<>> otherwise
    sideEffects,   \* store_session / webbrowser.open performed, in order
    toolResult,    \* what list_youtube_channels returned
    user_token,    \* the module-global _user_token
    \* ---- Part III: the interceptor -----------------------------------
    event,         \* the interceptor input under test
    vault,         \* how the token vault answers the two possible calls
    vaultCalls,    \* userIdentifiers passed to get_resource_oauth2_token
    hresult,       \* what handler returned, or Raised
    \* ---- Part III: the functions of interceptor.py on their own ------
    probe,         \* the function applied and its arguments
    answer,        \* what it returned, [fn |-> "none"] before
    \* ---- Part IV: the MCP server tools and the browser agent --------
    call,          \* the tool invoked, its context and the gateway's answers
    ret,           \* what the tool returned and the HTTP requests it sent
    \* ---- Part V: the OAuth2 callback servers -------------------------
    servers,       \* the OAuth2CallbackServer objects of the package, in
                   \* order of construction, with their user_token_identifier
    flows,         \* the complete_oauth_flow calls made, in order
    lastOp,        \* the operation of Part V performed last
    self_access_token, \* self.access_token of the server main.py runs, and the file
    elicited,      \* the user whose login made the gateway elicit session n
    bindings,      \* the complete_resource_token_auth calls made, in order
    handled        \* requests and calls Part V has handled

(***************************************************************************)
(* Bounds of the model.                                                    *)
(***************************************************************************)
\* construct runs per behaviour (each names its resources after its own time)
MaxRuns == 2
\* SDK calls per behaviour that raise although they could have succeeded
MaxFaults == 2

(***************************************************************************)
(* Part I.  The construct scripts.                                         *)
(***************************************************************************)
Scripts == {"mcp", "hello"}

NoFile == [exists |-> FALSE]

\* CONFIG_FILE written by json.dump: the file exists and holds the dict
File(data) == [exists |-> TRUE, data |-> data]

\* a resource of kind k created by construct run n
Res(k, n) == <<k, n>>

\* runtime_id = "local": the placeholder the mcp script stores (no resource)
Local == <<"local", 0>>

\* a configuration value that identifies no resource (region, callback URL)
Plain == <<"value", 0>>

\* the statuses get_gateway may report; the last three are terminal
GatewayStatuses == {"CREATING", "READY", "AVAILABLE", "FAILED"}

\* the status literal each script's wait loop compares against
ReadyLiteral(s) == IF s = "mcp" THEN "AVAILABLE" ELSE "READY"

\* while waiter_count < 30
MaxPolls == 30

Call(op, res) == [op |-> op, res |-> res]

Logged(c, ok) == [op |-> c.op, res |-> c.res, ok |-> ok]

CreateOps == {"create_role", "create_user_pool", "create_user_pool_domain",
              "create_resource_server", "create_user_pool_client",
              "create_workload_identity", "create_oauth2_credential_provider",
              "create_gateway", "create_gateway_target"}

DeleteOps == {"delete_runtime", "delete_gateway_target", "delete_gateway",
              "delete_oauth2_credential_provider", "delete_workload_identity",
              "delete_user_pool_domain", "delete_user_pool", "delete_role"}

\* what a call that returns normally does to the cloud: a create adds its
\* resource, a delete removes it (a user pool takes its resource server and
\* app client with it), every other call changes nothing
Effect(cl, c) ==
    IF c.op \in CreateOps THEN cl \cup {c.res}
    ELSE IF c.op = "delete_user_pool"
         THEN cl \ {c.res, Res("resource_server", c.res[2]), Res("app_client", c.res[2])}
    ELSE IF c.op \in DeleteOps THEN cl \ {c.res}
    ELSE cl

\* a call on a resource that does not exist cannot return normally
CanReturn(cl, c) == c.op \in CreateOps \/ c.res \in cl

\* the cloud after the first k calls of ops returned normally
RECURSIVE CloudAfter(_, _, _)
CloudAfter(cl, ops, k) ==
    IF k = 0 THEN cl ELSE Effect(CloudAfter(cl, ops, k - 1), ops[k])

\* the first k calls of ops can all return normally, one after the other
Feasible(cl, ops, k) ==
    \A i \in 1..k : CanReturn(CloudAfter(cl, ops, i - 1), ops[i])

\* the log after the first k calls returned and, if k < Len(ops), call k+1 raised
LogAfter(log, ops, k) ==
    log \o [i \in 1..(IF k < Len(ops) THEN k + 1 ELSE k) |-> Logged(ops[i], i <= k)]

\* the resources the first k calls of ops created, in order
CreatedBy(ops, k) ==
    SelectSeq([i \in 1..k |-> ops[i]], LAMBDA c : c.op \in CreateOps)

ResOf(s) == [i \in 1..Len(s) |-> s[i].res]

Range(s) == {s[i] : i \in 1..Len(s)}

\* the dict main of the mcp script saves: every local it collected in run n
McpConfig(n) ==
    [gateway_id        |-> Res("gateway", n),
     gateway_url       |-> Res("gateway", n),
     gateway_role_arn  |-> Res("gateway_role", n),
     gateway_role_name |-> Res("gateway_role", n),
     runtime_role_arn  |-> Res("runtime_role", n),
     runtime_role_name |-> Res("runtime_role", n),
     identity_arn      |-> Res("identity", n),
     identity_name     |-> Res("identity", n),
     provider_arn      |-> Res("provider", n),
     provider_name     |-> Res("provider", n),
     target_id         |-> Res("target", n),
     runtime_id        |-> Local,
     runtime_arn       |-> Local,
     oauth_callback_url |-> Plain,
     region            |-> Plain]

\* the dict main of the hello script saves
HelloConfig(n) ==
    [gateway_id            |-> Res("gateway", n),
     gateway_url           |-> Res("gateway", n),
     identity_arn          |-> Res("identity", n),
     user_pool_id          |-> Res("user_pool", n),
     cognito_client_id     |-> Res("app_client", n),
     cognito_discovery_url |-> Res("user_pool", n),
     cognito_domain_prefix |-> Res("domain", n),
     provider_arn          |-> Res("provider", n),
     oauth_callback_url    |-> Plain,
     role_arn              |-> Res("gateway_role", n),
     target_id             |-> Res("target", n)]

\* the keys of a saved dict that identify a resource
ResourceKeys(data) == {k \in DOMAIN data : data[k] # Plain}

\* the creation steps of each script's main, in program order
CreationSteps(s) ==
    IF s = "mcp"
    THEN {"create_gateway_role", "create_runtime_role", "create_workload_identity",
          "create_oauth_provider", "create_gateway", "create_gateway_target"}
    ELSE {"create_gateway_role", "create_cognito_resources", "create_workload_identity",
          "create_oauth_provider", "create_gateway", "create_gateway_target"}

cvars == <<script, pc, args, env, config_file, cloud, gwStatus, runNo, waiter_count,
           calls, printed, exitStatus, faults, configAtStart, writes, stepsDone,
           created, createSeq, sawReady, lastRun, owed>>

evars == <<epc, gwResult, sessions, session_id, reads, pollStatus, gwCalls,
           resolvedAt, sideEffects, toolResult, user_token>>

ivars == <<event, vault, vaultCalls, hresult>>

fvars == <<probe, answer>>

svars == <<call, ret>>

bvars == <<servers, flows, lastOp, self_access_token, elicited, bindings, handled>>

vars == <<cvars, evars, ivars, fvars, svars, bvars>>

\* an invocation ends: the process exits with the given status
Exit(status, how) ==
    /\ pc' = "idle"
    /\ exitStatus' = status
    /\ lastRun' = how

\* an exception leaves main: the mcp script prints and calls sys.exit(1), the
\* hello script dies of the uncaught exception, which is exit status 1 as well
ConstructFails == Exit(1, "failed")

\* the k+1st call of ops raises: either it cannot return, or it is a fault
Raises(ops, k) ==
    /\ k < Len(ops)
    /\ IF CanReturn(CloudAfter(cloud, ops, k), ops[k + 1])
       THEN faults < MaxFaults /\ faults' = faults + 1
       ELSE faults' = faults

\* a creation function of main making the SDK calls ops in order: the first k
\* return, and either all did (main goes on at next) or the next one raises and
\* the exception leaves main
CreateStep(step, ops, next) ==
    \E k \in 0..Len(ops) :
        /\ Feasible(cloud, ops, k)
        /\ cloud' = CloudAfter(cloud, ops, k)
        /\ calls' = LogAfter(calls, ops, k)
        /\ created' = created \cup Range(ResOf(CreatedBy(ops, k)))
        /\ createSeq' = createSeq \o ResOf(CreatedBy(ops, k))
        /\ IF k = Len(ops)
           THEN /\ faults' = faults
                /\ pc' = next
                /\ stepsDone' = stepsDone \cup {step}
                /\ UNCHANGED <<exitStatus, lastRun>>
           ELSE /\ Raises(ops, k)
                /\ ConstructFails
                /\ UNCHANGED stepsDone
        /\ UNCHANGED <<script, args, env, config_file, runNo, printed,
                       configAtStart, writes, owed>>
        /\ UNCHANGED <<evars, ivars, fvars, svars, bvars>>

\* CleanupBlock without its try/except: a raising call ends the cleanup
CleanupBlock_aborts(present, ops, next) ==
    /\ IF ~present
       THEN /\ pc' = next
            /\ UNCHANGED <<cloud, calls, printed, faults, exitStatus, lastRun>>
       ELSE \E k \in 0..Len(ops) :
                /\ Feasible(cloud, ops, k)
                /\ cloud' = CloudAfter(cloud, ops, k)
                /\ calls' = LogAfter(calls, ops, k)
                /\ UNCHANGED printed
                /\ IF k = Len(ops)
                   THEN /\ pc' = next
                        /\ UNCHANGED <<faults, exitStatus, lastRun>>
                   ELSE /\ Raises(ops, k)
                        /\ Exit(1, "cleanup_raised")
    /\ UNCHANGED <<script, args, env, config_file, gwStatus, runNo, waiter_count,
                   configAtStart, writes, stepsDone, created, createSeq, sawReady,
                   owed>>
    /\ UNCHANGED <<evars, ivars, fvars, svars, bvars>>

\* one "if key in config: try: ... except Exception: print(...)" block of a
\* cleanup: the first k calls return; if the next raises, the failure is printed
\* and the rest of the block is skipped; cleanup goes on at next either way
CleanupBlock(present, ops, next) ==
    /\ pc' = next
    /\ IF ~present
       THEN UNCHANGED <<cloud, calls, printed, faults>>
       ELSE \E k \in 0..Len(ops) :
                /\ Feasible(cloud, ops, k)
                /\ cloud' = CloudAfter(cloud, ops, k)
                /\ calls' = LogAfter(calls, ops, k)
                /\ IF k = Len(ops)
                   THEN UNCHANGED <<printed, faults>>
                   ELSE Raises(ops, k) /\ printed' = printed + 1
    /\ UNCHANGED <<script, args, env, config_file, gwStatus, runNo, waiter_count,
                   exitStatus, configAtStart, writes, stepsDone, created,
                   createSeq, sawReady, lastRun, owed>>
    /\ UNCHANGED <<evars, ivars, fvars, svars, bvars>>

\* what every invocation starts from
Begin(a, e) ==
    /\ args' = a
    /\ env' = e
    /\ calls' = <<>>
    /\ printed' = 0
    /\ writes' = 0
    /\ stepsDone' = {}
    /\ sawReady' = FALSE
    /\ configAtStart' = config_file
    /\ UNCHANGED <<evars, ivars, fvars, svars, bvars>>

Envs == [id : BOOLEAN, secret : BOOLEAN]

\* --cleanup: nothing to do without config.json, else load it and delete
StartCleanup(first) ==
    /\ owed' = IF lastRun = "failed" THEN created ELSE {}
    /\ IF ~config_file.exists
       THEN Exit(0, "nothing")
       ELSE pc' = first /\ UNCHANGED <<exitStatus, lastRun>>
    /\ UNCHANGED <<script, config_file, cloud, gwStatus, runNo, waiter_count,
                   faults, created, createSeq>>

\* StartConstruct checking the client id alone
StartConstruct_id_only(e, first) ==
    /\ IF ~e.id
       THEN /\ Exit(1, "refused")
            /\ UNCHANGED <<runNo, created>>
       ELSE /\ runNo < MaxRuns
            /\ runNo' = runNo + 1
            /\ created' = {}
            /\ pc' = first
            /\ UNCHANGED <<exitStatus, lastRun>>
    /\ UNCHANGED <<script, config_file, cloud, gwStatus, waiter_count, faults,
                   createSeq, owed>>

\* the environment check of main and, past it, the start of the build
StartConstruct(e, first) ==
    /\ IF ~e.id \/ ~e.secret
       THEN /\ Exit(1, "refused")
            /\ UNCHANGED <<runNo, created>>
       ELSE /\ runNo < MaxRuns
            /\ runNo' = runNo + 1
            /\ created' = {}
            /\ pc' = first
            /\ UNCHANGED <<exitStatus, lastRun>>
    /\ UNCHANGED <<script, config_file, cloud, gwStatus, waiter_count, faults,
                   createSeq, owed>>

\* RemoveConfig with the os.remove forgotten
RemoveConfig_keeps ==
    /\ Exit(0, "cleaned")
    /\ UNCHANGED <<script, args, env, config_file, cloud, gwStatus, runNo,
                   waiter_count, calls, printed, faults, configAtStart, writes,
                   stepsDone, created, createSeq, sawReady, owed>>
    /\ UNCHANGED <<evars, ivars, fvars, svars, bvars>>

\* os.remove(CONFIG_FILE) at the end of a cleanup, then the process ends
RemoveConfig ==
    /\ config_file' = NoFile
    /\ Exit(0, "cleaned")
    /\ UNCHANGED <<script, args, env, cloud, gwStatus, runNo, waiter_count, calls,
                   printed, faults, configAtStart, writes, stepsDone, created,
                   createSeq, sawReady, owed>>
    /\ UNCHANGED <<evars, ivars, fvars, svars, bvars>>

\* json.dump(config, f) into CONFIG_FILE, the last step of a build
WriteConfig(data) ==
    /\ config_file' = File(data)
    /\ writes' = writes + 1
    /\ Exit(0, "built")
    /\ UNCHANGED <<script, args, env, cloud, gwStatus, runNo, waiter_count, calls,
                   printed, faults, configAtStart, stepsDone, created, createSeq,
                   sawReady, owed>>
    /\ UNCHANGED <<evars, ivars, fvars, svars, bvars>>

(***************************************************************************)
(* mcp-server-with-oauth-gateway/construct.py                              *)
(***************************************************************************)
mcp_main ==
    /\ script = "mcp"
    /\ pc = "idle"
    /\ \E a \in {"construct", "cleanup"}, e \in Envs :
        /\ Begin(a, e)
        /\ IF a = "cleanup"
           THEN StartCleanup("mc_runtime")
           ELSE StartConstruct(e, "m_gateway_role")

mcp_create_gateway_role ==
    /\ pc = "m_gateway_role"
    /\ CreateStep("create_gateway_role",
                  <<Call("create_role", Res("gateway_role", runNo)),
                    Call("attach_role_policy", Res("gateway_role", runNo))>>,
                  "m_runtime_role")
    /\ UNCHANGED <<gwStatus, waiter_count, sawReady>>

mcp_create_runtime_role ==
    /\ pc = "m_runtime_role"
    /\ CreateStep("create_runtime_role",
                  <<Call("create_role", Res("runtime_role", runNo)),
                    Call("attach_role_policy", Res("runtime_role", runNo))>>,
                  "m_identity")
    /\ UNCHANGED <<gwStatus, waiter_count, sawReady>>

mcp_create_workload_identity ==
    /\ pc = "m_identity"
    /\ CreateStep("create_workload_identity",
                  <<Call("create_workload_identity", Res("identity", runNo))>>,
                  "m_provider")
    /\ UNCHANGED <<gwStatus, waiter_count, sawReady>>

mcp_create_oauth_provider ==
    /\ pc = "m_provider"
    /\ CreateStep("create_oauth_provider",
                  <<Call("create_oauth2_credential_provider", Res("provider", runNo))>>,
                  "m_gateway")
    /\ UNCHANGED <<gwStatus, waiter_count, sawReady>>

\* control_client.create_gateway(...) and waiter_count = 0; the function has
\* not returned yet, its wait loop follows
mcp_create_gateway ==
    /\ pc = "m_gateway"
    /\ CreateStep("create_gateway_call",
                  <<Call("create_gateway", Res("gateway", runNo))>>,
                  "m_wait")
    /\ gwStatus' = IF pc' = "m_wait" THEN "CREATING" ELSE gwStatus
    /\ waiter_count' = 0
    /\ UNCHANGED sawReady

mcp_create_gateway_wait_skips_count ==
    /\ pc = "m_wait"
    /\ IF waiter_count < MaxPolls
       THEN \/ /\ gwStatus = "AVAILABLE"
               /\ sawReady' = TRUE
               /\ pc' = "m_target"
               /\ stepsDone' = stepsDone \cup {"create_gateway"}
               /\ waiter_count' = 0
               /\ UNCHANGED faults
            \/ /\ gwStatus # "AVAILABLE"
               /\ waiter_count' = waiter_count + 1
               /\ UNCHANGED <<pc, sawReady, stepsDone, faults>>
            \/ /\ faults < MaxFaults
               /\ faults' = faults + 1
               /\ UNCHANGED <<pc, sawReady, stepsDone, waiter_count>>
       ELSE /\ pc' = "m_target"
            /\ stepsDone' = stepsDone \cup {"create_gateway"}
            /\ waiter_count' = 0
            /\ UNCHANGED <<sawReady, faults>>
    /\ gwStatus' = IF pc' = "m_wait" THEN gwStatus ELSE "NONE"
    /\ UNCHANGED <<script, args, env, config_file, cloud, runNo, calls,
                   printed, exitStatus, configAtStart, writes, created, createSeq,
                   lastRun, owed>>
    /\ UNCHANGED <<evars, ivars, fvars, svars, bvars>>

\* one turn of "while waiter_count < 30": get_gateway returns the status or
\* raises (swallowed by "except Exception: pass"); AVAILABLE breaks the loop,
\* anything else sleeps and counts; the loop's end is the function's return,
\* where the local waiter_count is gone (0 here)
mcp_create_gateway_wait ==
    /\ pc = "m_wait"
    /\ IF waiter_count < MaxPolls
       THEN \/ /\ gwStatus = "AVAILABLE"
               /\ sawReady' = TRUE
               /\ pc' = "m_target"
               /\ stepsDone' = stepsDone \cup {"create_gateway"}
               /\ waiter_count' = 0
               /\ UNCHANGED faults
            \/ /\ gwStatus # "AVAILABLE"
               /\ waiter_count' = waiter_count + 1
               /\ UNCHANGED <<pc, sawReady, stepsDone, faults>>
            \/ /\ faults < MaxFaults
               /\ faults' = faults + 1
               /\ waiter_count' = waiter_count + 1
               /\ UNCHANGED <<pc, sawReady, stepsDone>>
       ELSE /\ pc' = "m_target"
            /\ stepsDone' = stepsDone \cup {"create_gateway"}
            /\ waiter_count' = 0
            /\ UNCHANGED <<sawReady, faults>>
    /\ gwStatus' = IF pc' = "m_wait" THEN gwStatus ELSE "NONE"
    /\ UNCHANGED <<script, args, env, config_file, cloud, runNo, calls,
                   printed, exitStatus, configAtStart, writes, created, createSeq,
                   lastRun, owed>>
    /\ UNCHANGED <<evars, ivars, fvars, svars, bvars>>

\* mcp_create_gateway_target whose failure saves what was built so far
mcp_create_gateway_target_saves ==
    /\ pc = "m_target"
    /\ \/ /\ CreateStep("create_gateway_target",
                        <<Call("create_gateway_target", Res("target", runNo))>>,
                        "m_save")
          /\ pc' = "m_save"
       \/ /\ faults < MaxFaults
          /\ faults' = faults + 1
          /\ calls' = Append(calls, Logged(Call("create_gateway_target",
                                                Res("target", runNo)), FALSE))
          /\ config_file' = File([k \in DOMAIN McpConfig(runNo) \ {"target_id"} |->
                                    McpConfig(runNo)[k]])
          /\ writes' = writes + 1
          /\ ConstructFails
          /\ UNCHANGED <<script, args, env, cloud, runNo, printed, configAtStart,
                         stepsDone, created, createSeq, owed>>
          /\ UNCHANGED <<evars, ivars, fvars, svars, bvars>>
    /\ UNCHANGED <<gwStatus, waiter_count, sawReady>>

mcp_create_gateway_target ==
    /\ pc = "m_target"
    /\ CreateStep("create_gateway_target",
                  <<Call("create_gateway_target", Res("target", runNo))>>,
                  "m_save")
    /\ UNCHANGED <<gwStatus, waiter_count, sawReady>>

mcp_save_config ==
    /\ pc = "m_save"
    /\ WriteConfig(McpConfig(runNo))

\* the blocks of cleanup_resources, in program order
mcp_cleanup_runtime ==
    /\ pc = "mc_runtime"
    /\ LET config == config_file.data IN
       CleanupBlock("runtime_id" \in DOMAIN config,
                    <<Call("delete_runtime", config.runtime_id)>>,
                    "mc_target")

mcp_cleanup_target ==
    /\ pc = "mc_target"
    /\ LET config == config_file.data IN
       CleanupBlock("target_id" \in DOMAIN config /\ "gateway_id" \in DOMAIN config,
                    <<Call("delete_gateway_target", config.target_id)>>,
                    "mc_gateway")

mcp_cleanup_gateway ==
    /\ pc = "mc_gateway"
    /\ LET config == config_file.data IN
       CleanupBlock("gateway_id" \in DOMAIN config,
                    <<Call("delete_gateway", config.gateway_id)>>,
                    "mc_provider")

mcp_cleanup_provider ==
    /\ pc = "mc_provider"
    /\ LET config == config_file.data IN
       CleanupBlock("provider_name" \in DOMAIN config,
                    <<Call("delete_oauth2_credential_provider", config.provider_name)>>,
                    "mc_identity")

mcp_cleanup_identity ==
    /\ pc = "mc_identity"
    /\ LET config == config_file.data IN
       CleanupBlock("identity_name" \in DOMAIN config,
                    <<Call("delete_workload_identity", config.identity_name)>>,
                    "mc_role_1")

\* the calls of one turn of "for role_name in [...]": list the attached
\* policies, detach the one main attached, delete the role
RoleCalls(role) ==
    <<Call("list_attached_role_policies", role),
      Call("detach_role_policy", role),
      Call("delete_role", role)>>

\* first turn of the role loop: config.get("gateway_role_name")
mcp_cleanup_role_1 ==
    /\ pc = "mc_role_1"
    /\ LET config == config_file.data IN
       CleanupBlock("gateway_role_name" \in DOMAIN config,
                    RoleCalls(config.gateway_role_name),
                    "mc_role_2")

\* second turn of the role loop: config.get("runtime_role_name")
mcp_cleanup_role_2 ==
    /\ pc = "mc_role_2"
    /\ LET config == config_file.data IN
       CleanupBlock("runtime_role_name" \in DOMAIN config,
                    RoleCalls(config.runtime_role_name),
                    "mc_remove")

mcp_cleanup_remove ==
    /\ pc = "mc_remove"
    /\ RemoveConfig

(***************************************************************************)
(* say-hello-to-authorized-customer/construct.py                           *)
(***************************************************************************)
hello_main ==
    /\ script = "hello"
    /\ pc = "idle"
    /\ \E a \in {"construct", "cleanup"}, e \in Envs :
        /\ Begin(a, e)
        /\ IF a = "cleanup"
           THEN StartCleanup("hc_target")
           ELSE StartConstruct(e, "h_gateway_role")

hello_create_gateway_role ==
    /\ pc = "h_gateway_role"
    /\ CreateStep("create_gateway_role",
                  <<Call("create_role", Res("gateway_role", runNo)),
                    Call("attach_role_policy", Res("gateway_role", runNo))>>,
                  "h_cognito")
    /\ UNCHANGED <<gwStatus, waiter_count, sawReady>>

hello_create_cognito_resources ==
    /\ pc = "h_cognito"
    /\ CreateStep("create_cognito_resources",
                  <<Call("create_user_pool", Res("user_pool", runNo)),
                    Call("create_user_pool_domain", Res("domain", runNo)),
                    Call("create_resource_server", Res("resource_server", runNo)),
                    Call("create_user_pool_client", Res("app_client", runNo))>>,
                  "h_identity")
    /\ UNCHANGED <<gwStatus, waiter_count, sawReady>>

hello_create_workload_identity ==
    /\ pc = "h_identity"
    /\ CreateStep("create_workload_identity",
                  <<Call("create_workload_identity", Res("identity", runNo))>>,
                  "h_provider")
    /\ UNCHANGED <<gwStatus, waiter_count, sawReady>>

hello_create_oauth_provider ==
    /\ pc = "h_provider"
    /\ CreateStep("create_oauth_provider",
                  <<Call("create_oauth2_credential_provider", Res("provider", runNo))>>,
                  "h_gateway")
    /\ UNCHANGED <<gwStatus, waiter_count, sawReady>>

\* control_client.create_gateway(...); the wait loop follows
hello_create_gateway ==
    /\ pc = "h_gateway"
    /\ CreateStep("create_gateway_call",
                  <<Call("create_gateway", Res("gateway", runNo))>>,
                  "h_wait")
    /\ gwStatus' = IF pc' = "h_wait" THEN "CREATING" ELSE gwStatus
    /\ UNCHANGED <<waiter_count, sawReady>>

\* one turn of "while True": get_gateway returns the status, READY breaks the
\* loop and the function returns, anything else sleeps and polls again; an
\* exception of get_gateway is not caught and leaves main
hello_create_gateway_wait ==
    /\ pc = "h_wait"
    /\ \/ /\ gwStatus = "READY"
          /\ sawReady' = TRUE
          /\ pc' = "h_target"
          /\ stepsDone' = stepsDone \cup {"create_gateway"}
          /\ UNCHANGED <<faults, exitStatus, lastRun>>
       \/ /\ gwStatus # "READY"
          /\ UNCHANGED <<pc, sawReady, stepsDone, faults, exitStatus, lastRun>>
       \/ /\ faults < MaxFaults
          /\ faults' = faults + 1
          /\ ConstructFails
          /\ UNCHANGED <<sawReady, stepsDone>>
    /\ gwStatus' = IF pc' = "h_wait" THEN gwStatus ELSE "NONE"
    /\ UNCHANGED <<script, args, env, config_file, cloud, runNo,
                   waiter_count, calls, printed, configAtStart, writes, created,
                   createSeq, owed>>
    /\ UNCHANGED <<evars, ivars, fvars, svars, bvars>>

hello_create_gateway_target ==
    /\ pc = "h_target"
    /\ CreateStep("create_gateway_target",
                  <<Call("create_gateway_target", Res("target", runNo))>>,
                  "h_save")
    /\ UNCHANGED <<gwStatus, waiter_count, sawReady>>

\* "with open(CONFIG_FILE, 'w') as f: json.dump(config, f, indent=2)" in main
hello_save_config ==
    /\ pc = "h_save"
    /\ WriteConfig(HelloConfig(runNo))

\* hello_cleanup_target sharing one try block with the gateway's delete
hello_cleanup_target_merged ==
    /\ pc = "hc_target"
    /\ LET config == config_file.data IN
       CleanupBlock("gateway_id" \in DOMAIN config /\ "target_id" \in DOMAIN config,
                    <<Call("delete_gateway_target", config.target_id),
                      Call("delete_gateway", config.gateway_id)>>,
                    "hc_provider")

\* the blocks of cleanup(config), in program order
hello_cleanup_target ==
    /\ pc = "hc_target"
    /\ LET config == config_file.data IN
       CleanupBlock("gateway_id" \in DOMAIN config /\ "target_id" \in DOMAIN config,
                    <<Call("delete_gateway_target", config.target_id)>>,
                    "hc_gateway")

hello_cleanup_gateway ==
    /\ pc = "hc_gateway"
    /\ LET config == config_file.data IN
       CleanupBlock("gateway_id" \in DOMAIN config,
                    <<Call("delete_gateway", config.gateway_id)>>,
                    "hc_provider")

hello_cleanup_provider ==
    /\ pc = "hc_provider"
    /\ LET config == config_file.data IN
       CleanupBlock("provider_arn" \in DOMAIN config,
                    <<Call("delete_oauth2_credential_provider", config.provider_arn)>>,
                    "hc_identity")

hello_cleanup_identity ==
    /\ pc = "hc_identity"
    /\ LET config == config_file.data IN
       CleanupBlock("identity_arn" \in DOMAIN config,
                    <<Call("delete_workload_identity", config.identity_arn)>>,
                    "hc_cognito")

\* one try block: the domain first, then the pool
hello_cleanup_cognito ==
    /\ pc = "hc_cognito"
    /\ LET config == config_file.data IN
       CleanupBlock("user_pool_id" \in DOMAIN config,
                    <<Call("delete_user_pool_domain", Res("domain", config.user_pool_id[2])),
                      Call("delete_user_pool", config.user_pool_id)>>,
                    "hc_role")

\* one try block: detach the policy, then delete the role
hello_cleanup_role ==
    /\ pc = "hc_role"
    /\ LET config == config_file.data IN
       CleanupBlock("role_arn" \in DOMAIN config,
                    <<Call("detach_role_policy", config.role_arn),
                      Call("delete_role", config.role_arn)>>,
                    "hc_remove")

\* os.remove(CONFIG_FILE) in main, after cleanup(config) returned
hello_cleanup_remove ==
    /\ pc = "hc_remove"
    /\ RemoveConfig

\* the gateway service: a gateway being created settles in a terminal status
GatewaySettles ==
    /\ gwStatus = "CREATING"
    /\ gwStatus' \in GatewayStatuses \ {"CREATING"}
    /\ UNCHANGED <<script, pc, args, env, config_file, cloud, runNo, waiter_count,
                   calls, printed, exitStatus, faults, configAtStart, writes,
                   stepsDone, created, createSeq, sawReady, lastRun, owed>>
    /\ UNCHANGED <<evars, ivars, fvars, svars, bvars>>

ConstructInit ==
    /\ script \in Scripts
    /\ pc = "idle"
    /\ args = "construct"
    /\ env = [id |-> TRUE, secret |-> TRUE]
    /\ config_file = NoFile
    /\ cloud = {}
    /\ gwStatus = "NONE"
    /\ runNo = 0
    /\ waiter_count = 0
    /\ calls = <<>>
    /\ printed = 0
    /\ exitStatus = -1
    /\ faults = 0
    /\ configAtStart = NoFile
    /\ writes = 0
    /\ stepsDone = {}
    /\ created = {}
    /\ createSeq = <<>>
    /\ sawReady = FALSE
    /\ lastRun = "none"
    /\ owed = {}

ConstructNext ==
    \/ mcp_main
    \/ mcp_create_gateway_role
    \/ mcp_create_runtime_role
    \/ mcp_create_workload_identity
    \/ mcp_create_oauth_provider
    \/ mcp_create_gateway
    \/ mcp_create_gateway_wait
    \/ mcp_create_gateway_target
    \/ mcp_save_config
    \/ mcp_cleanup_runtime
    \/ mcp_cleanup_target
    \/ mcp_cleanup_gateway
    \/ mcp_cleanup_provider
    \/ mcp_cleanup_identity
    \/ mcp_cleanup_role_1
    \/ mcp_cleanup_role_2
    \/ mcp_cleanup_remove
    \/ hello_main
    \/ hello_create_gateway_role
    \/ hello_create_cognito_resources
    \/ hello_create_workload_identity
    \/ hello_create_oauth_provider
    \/ hello_create_gateway
    \/ hello_create_gateway_wait
    \/ hello_create_gateway_target
    \/ hello_save_config
    \/ hello_cleanup_target
    \/ hello_cleanup_gateway
    \/ hello_cleanup_provider
    \/ hello_cleanup_identity
    \/ hello_cleanup_cognito
    \/ hello_cleanup_role
    \/ hello_cleanup_remove
    \/ GatewaySettles

(***************************************************************************)
(* Part II.  oauth-gateway-from-agent/server.py                            *)
(***************************************************************************)
\* reads poll_completion makes before its 120 s deadline is taken to pass
MaxPollReads == 3

\* the request_uri values an authorization URL may carry
Sids == {"s1", "s2"}

\* an authorization URL, by its request_uri query parameter ("" when absent)
Url(sid) == [request_uri |-> sid]

\* what call_gateway returns: resp.json(), or the code -1 error it builds for
\* a non-200 or empty reply.  hasError: the dict has an "error" member; code:
\* error.code; elicitations: error.data.elicitations ([] when absent)
Reply(hasError, code, elicitations) ==
    [hasError |-> hasError, code |-> code, elicitations |-> elicitations]

GatewayReplies ==
    {Reply(FALSE, 0, <<>>),
     Reply(TRUE, -1, <<>>),
     Reply(TRUE, -32000, <<>>),
     Reply(TRUE, -32000, <<Url("s1")>>),
     Reply(TRUE, -32042, <<>>),
     Reply(TRUE, -32042, <<Url("")>>),
     Reply(TRUE, -32042, <<Url("s1")>>),
     Reply(TRUE, -32042, <<Url("s2"), Url("s1")>>)}

\* the JSON-RPC code of an OAuth elicitation
ElicitationCode == -32042

NoItem == [status |-> "ABSENT", encrypted_user_token |-> ""]

\* kms.encrypt + base64: not the token itself
Encrypt(token) == "kms:" \o token

\* the status attribute of a session item; poll_completion knows COMPLETE and
\* FAILED, every other value ("PROCESSING" stands for them) leaves it waiting
SessionStatuses == {"PENDING", "PROCESSING", "COMPLETE", "FAILED"}

\* what the tool hands back to its caller
Returned(kind, reply) == [kind |-> kind, reply |-> reply]

NoReply == Reply(FALSE, 1, <<>>)

NotReturned == Returned("none", NoReply)

\* FlowDecision without the check of the error code: an error that is no
\* elicitation counts as "Already authorized"
FlowDecision_no_code_check(result) ==
    IF ~result.hasError THEN [d |-> "authorized", sid |-> ""]
    ELSE IF result.code # ElicitationCode THEN [d |-> "authorized", sid |-> ""]
    ELSE IF result.elicitations = <<>> THEN [d |-> "failed", sid |-> ""]
    ELSE IF result.elicitations[1].request_uri = "" THEN [d |-> "failed", sid |-> ""]
    ELSE [d |-> "wait", sid |-> result.elicitations[1].request_uri]

\* handle_oauth_flow up to its wait: what it decides from the first reply.
\* "authorized", "failed", or "wait" with the session id to store and poll
FlowDecision(result) ==
    IF ~result.hasError THEN [d |-> "authorized", sid |-> ""]
    ELSE IF result.code # ElicitationCode THEN [d |-> "failed", sid |-> ""]
    ELSE IF result.elicitations = <<>> THEN [d |-> "failed", sid |-> ""]
    ELSE IF result.elicitations[1].request_uri = "" THEN [d |-> "failed", sid |-> ""]
    ELSE [d |-> "wait", sid |-> result.elicitations[1].request_uri]

\* list_youtube_channels whose handle_oauth_flow opens the browser and waits
\* without store_session
list_youtube_channels_no_store ==
    /\ epc = "idle"
    /\ resolvedAt' = <<>>
    /\ reads' = <<>>
    /\ pollStatus' = "NONE"
    /\ IF user_token = ""
       THEN /\ toolResult' = Returned("not_authenticated", NoReply)
            /\ gwCalls' = <<>>
            /\ sideEffects' = <<>>
            /\ UNCHANGED <<epc, gwResult, sessions, session_id>>
       ELSE \E result \in GatewayReplies :
            LET dec == FlowDecision(result) IN
            /\ gwResult' = result
            /\ gwCalls' = <<result>>
            /\ toolResult' = IF dec.d = "failed"
                             THEN Returned("error", NoReply)
                             ELSE NotReturned
            /\ epc' = CASE dec.d = "failed" -> "idle"
                        [] dec.d = "authorized" -> "retry"
                        [] OTHER -> "poll"
            /\ session_id' = dec.sid
            /\ IF dec.d = "wait"
               THEN /\ sessions' = sessions
                    /\ sideEffects' = <<"webbrowser.open">>
               ELSE /\ sideEffects' = <<>>
                    /\ UNCHANGED sessions
    /\ UNCHANGED user_token
    /\ UNCHANGED <<cvars, ivars, fvars, svars, bvars>>

\* list_youtube_channels from its entry to the first place it waits: the
\* _user_token check, then handle_oauth_flow's first gateway call, its
\* classification, store_session and webbrowser.open
list_youtube_channels ==
    /\ epc = "idle"
    /\ resolvedAt' = <<>>
    /\ reads' = <<>>
    /\ pollStatus' = "NONE"
    /\ IF user_token = ""
       THEN /\ toolResult' = Returned("not_authenticated", NoReply)
            /\ gwCalls' = <<>>
            /\ sideEffects' = <<>>
            /\ UNCHANGED <<epc, gwResult, sessions, session_id>>
       ELSE \E result \in GatewayReplies :
            LET dec == FlowDecision(result) IN
            /\ gwResult' = result
            /\ gwCalls' = <<result>>
            /\ toolResult' = IF dec.d = "failed"
                             THEN Returned("error", NoReply)
                             ELSE NotReturned
            /\ epc' = CASE dec.d = "failed" -> "idle"
                        [] dec.d = "authorized" -> "retry"
                        [] OTHER -> "poll"
            /\ session_id' = dec.sid
            /\ IF dec.d = "wait"
               THEN /\ sessions' = [sessions EXCEPT ![dec.sid] =
                                      [status |-> "PENDING",
                                       encrypted_user_token |-> Encrypt(user_token)]]
                    /\ sideEffects' = <<"store_session", "webbrowser.open">>
               ELSE /\ sideEffects' = <<>>
                    /\ UNCHANGED sessions
    /\ UNCHANGED user_token
    /\ UNCHANGED <<cvars, ivars, fvars, svars, bvars>>

\* poll_completion taking a missing item for a failed authorization
poll_completion_missing_fails ==
    /\ epc = "poll"
    /\ \/ /\ Len(reads) < MaxPollReads
          /\ \E status \in {sessions[session_id].status, NoItem.status} :
             /\ reads' = Append(reads, status)
             /\ pollStatus' = CASE status = "COMPLETE" -> "COMPLETE"
                                [] status \in {"FAILED", "ABSENT"} -> "FAILED: "
                                [] OTHER -> pollStatus
             /\ epc' = CASE status = "COMPLETE" -> "retry"
                         [] status \in {"FAILED", "ABSENT"} -> "idle"
                         [] OTHER -> "poll"
             /\ resolvedAt' = IF status = "COMPLETE"
                              THEN <<Len(gwCalls), Len(sideEffects)>>
                              ELSE resolvedAt
             /\ toolResult' = IF status \in {"FAILED", "ABSENT"}
                              THEN Returned("error", NoReply)
                              ELSE toolResult
       \/ /\ Len(reads) >= 1
          /\ pollStatus' = "TIMEOUT"
          /\ epc' = "idle"
          /\ toolResult' = Returned("error", NoReply)
          /\ UNCHANGED <<reads, resolvedAt>>
    /\ UNCHANGED <<gwResult, sessions, session_id, gwCalls, sideEffects, user_token>>
    /\ UNCHANGED <<cvars, ivars, fvars, svars, bvars>>

\* one turn of poll_completion's loop: past the deadline it returns TIMEOUT;
\* else it reads the item (get_item is an eventually consistent read: it may
\* return no Item): COMPLETE and FAILED end the wait, a missing item or any
\* other status sleeps and reads again.  handle_oauth_flow then reports
\* COMPLETE as authorized, and list_youtube_channels returns an error otherwise
poll_completion ==
    /\ epc = "poll"
    /\ \/ /\ Len(reads) < MaxPollReads
          /\ \E status \in {sessions[session_id].status, NoItem.status} :
             /\ reads' = Append(reads, status)
             /\ pollStatus' = CASE status = "COMPLETE" -> "COMPLETE"
                                [] status = "FAILED" -> "FAILED: "
                                [] OTHER -> pollStatus
             /\ epc' = CASE status = "COMPLETE" -> "retry"
                         [] status = "FAILED" -> "idle"
                         [] OTHER -> "poll"
             /\ resolvedAt' = IF status = "COMPLETE"
                              THEN <<Len(gwCalls), Len(sideEffects)>>
                              ELSE resolvedAt
             /\ toolResult' = IF status = "FAILED"
                              THEN Returned("error", NoReply)
                              ELSE toolResult
       \/ /\ Len(reads) >= 1
          /\ pollStatus' = "TIMEOUT"
          /\ epc' = "idle"
          /\ toolResult' = Returned("error", NoReply)
          /\ UNCHANGED <<reads, resolvedAt>>
    /\ UNCHANGED <<gwResult, sessions, session_id, gwCalls, sideEffects, user_token>>
    /\ UNCHANGED <<cvars, ivars, fvars, svars, bvars>>

\* list_youtube_channels_retry treating an elicitation in the retry's reply
\* like the first one: store, open the browser and wait again
list_youtube_channels_retry_again ==
    /\ epc = "retry"
    /\ \E result \in GatewayReplies :
        LET dec == FlowDecision(result) IN
        /\ gwResult' = result
        /\ gwCalls' = Append(gwCalls, result)
        /\ toolResult' = IF dec.d = "wait" THEN toolResult ELSE Returned("json", result)
        /\ epc' = IF dec.d = "wait" THEN "poll" ELSE "idle"
        /\ sideEffects' = IF dec.d = "wait"
                          THEN sideEffects \o <<"store_session", "webbrowser.open">>
                          ELSE sideEffects
        /\ session_id' = IF dec.d = "wait" THEN dec.sid ELSE session_id
        /\ sessions' = IF dec.d = "wait"
                       THEN [sessions EXCEPT ![dec.sid] =
                               [status |-> "PENDING",
                                encrypted_user_token |-> Encrypt(user_token)]]
                       ELSE sessions
    /\ UNCHANGED <<reads, pollStatus, resolvedAt, user_token>>
    /\ UNCHANGED <<cvars, ivars, fvars, svars, bvars>>

\* the tail of list_youtube_channels once handle_oauth_flow reported success:
\* one more call_gateway, whose reply is returned as JSON whatever it is
list_youtube_channels_retry ==
    /\ epc = "retry"
    /\ \E result \in GatewayReplies :
        /\ gwResult' = result
        /\ gwCalls' = Append(gwCalls, result)
        /\ toolResult' = Returned("json", result)
    /\ epc' = "idle"
    /\ UNCHANGED <<sessions, session_id, reads, pollStatus, resolvedAt,
                   sideEffects, user_token>>
    /\ UNCHANGED <<cvars, ivars, fvars, svars, bvars>>

\* the OAuth callback behind the authorization URL (not part of this file):
\* it moves a stored session on, in the end to COMPLETE or FAILED
oauth_callback ==
    /\ \E sid \in Sids, st \in SessionStatuses \ {"PENDING"} :
        /\ sessions[sid].status \in {"PENDING", "PROCESSING"}
        /\ sessions[sid].status # st
        /\ sessions' = [sessions EXCEPT ![sid].status = st]
    /\ UNCHANGED <<epc, gwResult, session_id, reads, pollStatus, gwCalls,
                   resolvedAt, sideEffects, toolResult, user_token>>
    /\ UNCHANGED <<cvars, ivars, fvars, svars, bvars>>

ElicitInit ==
    /\ epc = "idle"
    /\ gwResult = NoReply
    /\ sessions = [sid \in Sids |-> NoItem]
    /\ session_id = ""
    /\ reads = <<>>
    /\ pollStatus = "NONE"
    /\ gwCalls = <<>>
    /\ resolvedAt = <<>>
    /\ sideEffects = <<>>
    /\ toolResult = NotReturned
    /\ user_token \in {"", "tokenA", "tokenB"}

ElicitNext ==
    \/ list_youtube_channels
    \/ poll_completion
    \/ list_youtube_channels_retry
    \/ oauth_callback

(***************************************************************************)
(* Part III.  mcp_server_with_oauth_gateway/interceptor.py                 *)
(***************************************************************************)
\* dict.get on a missing key: None
None == "<None>"

\* Python's "not v" for None and str
Falsy(v) == v = None \/ v = ""

\* Python truthiness of a string-or-None value
Truthy(v) == v # None /\ v # ""

\* entries of the identities claim; dict = FALSE is an entry that is no JSON object
Identity(provider, userId) == [dict |-> TRUE, providerName |-> provider, userId |-> userId]

NonDictEntry == [dict |-> FALSE, providerName |-> None, userId |-> None]

IdentityLists ==
    {<<>>,
     <<Identity("Google", "g-1")>>,
     <<Identity("Facebook", "fb-1")>>,
     <<Identity("Facebook", "fb-1"), Identity("Google", "g-1")>>,
     <<Identity("Google", "g-1"), Identity("Google", "g-2")>>,
     <<Identity("Google", None)>>,
     <<NonDictEntry>>}

\* the identities claim: absent, "", a string that is no JSON, a number, a
\* parsed list, or the JSON text of a list
IdentitiesClaims ==
    {[i |-> "absent"], [i |-> "emptystr"], [i |-> "badtext"], [i |-> "number"]}
    \cup {[i |-> "list", items |-> l] : l \in IdentityLists}
    \cup {[i |-> "text", parsed |-> l] : l \in IdentityLists}

\* what the middle segment decodes to: a JSON object of claims, or other JSON
JsonValues ==
    {[j |-> "array"]}
    \cup {[j |-> "object", sub |-> s, identities |-> i] :
            s \in {None, "", "sub-1"}, i \in IdentitiesClaims}

\* the dot-separated segments of a token: opaque text, text that is no
\* base64 of JSON, or the URL-safe base64 of a JSON value
Opaque == [seg |-> "opaque"]

Junk == [seg |-> "junk"]

B64(json) == [seg |-> "b64", json |-> json]

GoodClaims == [j |-> "object", sub |-> "sub-1", identities |-> [i |-> "absent"]]

Tokens ==
    {<<Opaque, B64(v), Opaque>> : v \in JsonValues}
    \cup {<<Opaque, Junk, Opaque>>,
          <<B64(GoodClaims)>>,
          <<Opaque, B64(GoodClaims)>>,
          <<Opaque, B64(GoodClaims), Opaque, Opaque>>}

\* a header value: absent, one that does not start with "Bearer ", or
\* "Bearer " followed by a token
NoHeader == [h |-> "absent"]

BasicHeader == [h |-> "basic"]

Bearer(token) == [h |-> "bearer", token |-> token]

Events ==
    {[Authorization |-> A, authorization |-> a, body |-> "body-1"] :
        A \in {NoHeader, BasicHeader} \cup {Bearer(t) : t \in Tokens},
        a \in {NoHeader, Bearer(<<Opaque, B64(GoodClaims), Opaque>>)}}

\* what get_resource_oauth2_token does: a response dict (an absent member is
\* ""), ResourceNotFoundException, or another exception
VaultResponse(accessToken, authorizationUrl) ==
    [a |-> "response", accessToken |-> accessToken, authorizationUrl |-> authorizationUrl]

VaultAnswers ==
    {VaultResponse("at-1", ""), VaultResponse("at-1", "https://auth"),
     VaultResponse("", "https://auth"), VaultResponse("", ""),
     [a |-> "not_found"], [a |-> "error"]}

Vaults == [first : VaultAnswers, second : VaultAnswers]

\* the shapes handler returns, and Raised when an exception leaves it
\* headers: the set of <<name, value>> pairs of the "headers" dict
Output(kind, statusCode, headers, body, error, authorizationUrl) ==
    [interceptorOutputVersion |-> "1.0", kind |-> kind, statusCode |-> statusCode,
     headers |-> headers, body |-> body, error |-> error,
     authorizationUrl |-> authorizationUrl]

Raised ==
    [interceptorOutputVersion |-> None, kind |-> "raised", statusCode |-> 0,
     headers |-> {}, body |-> None, error |-> None, authorizationUrl |-> None]

NotRun ==
    [interceptorOutputVersion |-> None, kind |-> "none", statusCode |-> 0,
     headers |-> {}, body |-> None, error |-> None, authorizationUrl |-> None]

JsonContentType == {<<"Content-Type", "application/json">>}

\* gateway_request.get("body", {}): the body, or an empty dict when absent
EmptyDict == "{}"

\* _inject_token_response copying the request's headers next to the new one
_inject_token_response_forwards(ev, access_token) ==
    Output("transformedGatewayRequest", 0,
           {<<"Authorization", "Bearer " \o access_token>>,
            <<"X-Forwarded-Authorization", "inbound">>},
           IF ev.body = None THEN EmptyDict ELSE ev.body, None, None)

_inject_token_response(ev, access_token) ==
    Output("transformedGatewayRequest", 0,
           {<<"Authorization", "Bearer " \o access_token>>},
           IF ev.body = None THEN EmptyDict ELSE ev.body, None, None)

_auth_required_response(auth_url) ==
    Output("transformedGatewayResponse", 401, JsonContentType, None,
           "authorization_required", auth_url)

_error_response(status_code, message) ==
    Output("transformedGatewayResponse", status_code, JsonContentType, None, message, None)

\* results of the helpers: a value, or ok = FALSE when they raise
Ok(v) == [ok |-> TRUE, value |-> v]

Err == [ok |-> FALSE, value |-> None]

\* ---- the middle segment as text: JSON, bytes, base64 ----------------
\* digits a member's value may have
MaxDigits == 3

\* a JSON object with members among "a" and "b", each a number of one to
\* MaxDigits digits: a function from its keys to the digit strings
Digits(n) == SubSeq(<<"1", "2", "3", "4", "5">>, 1, n)

JsonObjects ==
    UNION {[keys -> {Digits(n) : n \in 1..MaxDigits}] : keys \in SUBSET {"a", "b"}}

\* the JSON text of an object, as characters
Member(p, k) == <<"\"", k, "\"", ":">> \o p[k]

json_dumps(p) ==
    <<"{">> \o (IF "a" \in DOMAIN p THEN Member(p, "a") ELSE <<>>)
            \o (IF DOMAIN p = {"a", "b"} THEN <<",">> ELSE <<>>)
            \o (IF "b" \in DOMAIN p THEN Member(p, "b") ELSE <<>>)
            \o <<"}">>

\* str.encode: the ASCII code of each character
Ascii(c) ==
    CASE c = "{" -> 123 [] c = "}" -> 125 [] c = "\"" -> 34 [] c = ":" -> 58
      [] c = "," -> 44 [] c = "a" -> 97 [] c = "b" -> 98 [] c = "1" -> 49
      [] c = "2" -> 50 [] c = "3" -> 51 [] c = "4" -> 52 [] c = "5" -> 53

Encoded(text) == [i \in 1..Len(text) |-> Ascii(text[i])]

\* json.loads of bytes: the object whose text they are, or JSONDecodeError
json_loads(bytes) ==
    IF \E p \in JsonObjects : Encoded(json_dumps(p)) = bytes
    THEN [ok |-> TRUE, value |-> CHOOSE p \in JsonObjects : Encoded(json_dumps(p)) = bytes]
    ELSE [ok |-> FALSE, value |-> <<>>]

\* base64 text is a sequence of 6-bit values 0..63; PadChar stands for "="
PadChar == 64

\* base64.urlsafe_b64encode: three bytes to four characters, "=" to fill
RECURSIVE urlsafe_b64encode(_)
urlsafe_b64encode(bytes) ==
    IF Len(bytes) = 0 THEN <<>>
    ELSE IF Len(bytes) = 1
    THEN <<bytes[1] \div 4, (bytes[1] % 4) * 16, PadChar, PadChar>>
    ELSE IF Len(bytes) = 2
    THEN LET n == bytes[1] * 256 + bytes[2] IN
         <<n \div 1024, (n \div 16) % 64, (n % 16) * 4, PadChar>>
    ELSE LET n == (bytes[1] * 256 + bytes[2]) * 256 + bytes[3] IN
         <<n \div 262144, (n \div 4096) % 64, (n \div 64) % 64, n % 64>>
             \o urlsafe_b64encode(SubSeq(bytes, 4, Len(bytes)))

\* rstrip("="): how issuers write the segments of a JWT
StripPadding(chars) == SelectSeq(chars, LAMBDA c : c # PadChar)

\* the bytes of the data characters d, whose number is not 1 more than a
\* multiple of 4
RECURSIVE DecodeQuads(_)
DecodeQuads(d) ==
    IF Len(d) = 0 THEN <<>>
    ELSE IF Len(d) = 2 THEN <<d[1] * 4 + (d[2] \div 16)>>
    ELSE IF Len(d) = 3
    THEN LET n == (d[1] * 64 + d[2]) * 64 + d[3] IN <<n \div 1024, (n \div 4) % 256>>
    ELSE LET n == ((d[1] * 64 + d[2]) * 64 + d[3]) * 64 + d[4] IN
         <<n \div 65536, (n \div 256) % 256, n % 256>>
             \o DecodeQuads(SubSeq(d, 5, Len(d)))

\* base64.urlsafe_b64decode: binascii.Error when the data characters are 1
\* more than a multiple of 4 or the "=" do not fill the last group
urlsafe_b64decode(chars) ==
    LET data == StripPadding(chars)
        pads == Len(chars) - Len(data) IN
    IF Len(data) % 4 = 1 THEN [ok |-> FALSE, value |-> <<>>]
    ELSE IF Len(data) % 4 # 0 /\ pads < 4 - (Len(data) % 4) THEN [ok |-> FALSE, value |-> <<>>]
    ELSE [ok |-> TRUE, value |-> DecodeQuads(data)]

\* Padding adding len % 4 characters
Padding_remainder(payload) == Len(payload) % 4

\* "padding = 4 - len(payload) % 4; if padding != 4": the "=" added
Padding(payload) ==
    LET padding == 4 - (Len(payload) % 4) IN
    IF padding # 4 THEN padding ELSE 0

\* a segment given as its characters
Text(chars) == [seg |-> "text", chars |-> chars]

\* lines 15-20 on a segment given as text
DecodeText(payload) ==
    LET padded == payload \o [i \in 1..Padding(payload) |-> PadChar]
        raw == urlsafe_b64decode(padded) IN
    IF ~raw.ok THEN [ok |-> FALSE, claims |-> [j |-> "array"], error |-> "binascii.Error"]
    ELSE LET v == json_loads(raw.value) IN
         IF ~v.ok THEN [ok |-> FALSE, claims |-> [j |-> "array"], error |-> "JSONDecodeError"]
         ELSE [ok |-> TRUE, claims |-> [j |-> "parsed", members |-> v.value], error |-> None]

\* decode_jwt_payload checking the third segment before it decodes
decode_jwt_payload_verifies(token) ==
    IF Len(token) # 3
    THEN [ok |-> FALSE, claims |-> [j |-> "array"], error |-> "Invalid JWT format"]
    ELSE IF token[3].seg # "opaque"
    THEN [ok |-> FALSE, claims |-> [j |-> "array"], error |-> "Invalid signature"]
    ELSE IF token[2].seg = "text" THEN DecodeText(token[2].chars)
    ELSE IF token[2].seg # "b64"
    THEN [ok |-> FALSE, claims |-> [j |-> "array"], error |-> "not base64 of JSON"]
    ELSE [ok |-> TRUE, claims |-> token[2].json, error |-> None]

\* decode_jwt_payload asking for three segments or more
decode_jwt_payload_at_least_three(token) ==
    IF Len(token) < 3
    THEN [ok |-> FALSE, claims |-> [j |-> "array"], error |-> "Invalid JWT format"]
    ELSE IF token[2].seg = "text" THEN DecodeText(token[2].chars)
    ELSE IF token[2].seg # "b64"
    THEN [ok |-> FALSE, claims |-> [j |-> "array"], error |-> "not base64 of JSON"]
    ELSE [ok |-> TRUE, claims |-> token[2].json, error |-> None]

\* split on ".", three parts or ValueError("Invalid JWT format"), then base64
\* and json.loads of the middle one, which raise their own errors on text
\* that is no base64 of JSON
decode_jwt_payload(token) ==
    IF Len(token) # 3
    THEN [ok |-> FALSE, claims |-> [j |-> "array"], error |-> "Invalid JWT format"]
    ELSE IF token[2].seg = "text" THEN DecodeText(token[2].chars)
    ELSE IF token[2].seg # "b64"
    THEN [ok |-> FALSE, claims |-> [j |-> "array"], error |-> "not base64 of JSON"]
    ELSE [ok |-> TRUE, claims |-> token[2].json, error |-> None]

\* "for identity in identities": the userId of the first Google entry, None
\* past the end; identity.get raises on an entry that is no dict
RECURSIVE FirstGoogle(_, _)
FirstGoogle(identities, i) ==
    IF i > Len(identities) THEN Ok(None)
    ELSE IF ~identities[i].dict THEN Err
    ELSE IF identities[i].providerName = "Google" THEN Ok(identities[i].userId)
    ELSE FirstGoogle(identities, i + 1)

\* extract_google_user_id without the json.loads of a string claim: the loop
\* runs over the characters, and identity.get raises on the first
extract_google_user_id_no_parse(jwt_claims) ==
    IF jwt_claims.j = "parsed" THEN Ok(None)
    ELSE IF jwt_claims.j # "object" THEN Err
    ELSE LET identities_str == jwt_claims.identities IN
         CASE identities_str.i \in {"absent", "emptystr"} -> Ok(None)
           [] identities_str.i = "badtext" -> Err
           [] identities_str.i = "number" -> Err
           [] identities_str.i = "text" -> Err
           [] identities_str.i = "list" ->
                IF identities_str.items = <<>> THEN Ok(None)
                ELSE FirstGoogle(identities_str.items, 1)

extract_google_user_id(jwt_claims) ==
    IF jwt_claims.j = "parsed" THEN Ok(None)
    ELSE IF jwt_claims.j # "object" THEN Err
    ELSE LET identities_str == jwt_claims.identities IN
         CASE identities_str.i \in {"absent", "emptystr"} -> Ok(None)
           [] identities_str.i = "badtext" -> Err
           [] identities_str.i = "number" -> Err
           [] identities_str.i = "text" -> FirstGoogle(identities_str.parsed, 1)
           [] identities_str.i = "list" ->
                IF identities_str.items = <<>> THEN Ok(None)
                ELSE FirstGoogle(identities_str.items, 1)

\* headers.get("Authorization", headers.get("authorization", ""))
AuthHeader(ev) ==
    IF ev.Authorization.h # "absent" THEN ev.Authorization ELSE ev.authorization

\* VaultPart asking the vault again after any exception of the first call
VaultPart_retries_on_any(ev, v, uid) ==
    IF v.first.a = "response"
    THEN [result |-> IF Truthy(v.first.accessToken)
                     THEN _inject_token_response(ev, v.first.accessToken)
                     ELSE _auth_required_response(v.first.authorizationUrl),
          calls |-> <<uid>>]
    ELSE [result |-> IF v.second.a = "response"
                     THEN _auth_required_response(v.second.authorizationUrl)
                     ELSE _error_response(500, "Failed to get authorization URL"),
          calls |-> <<uid, uid>>]

\* the token-vault part of handler, for the user identifier uid: the result
\* and the userIdentifiers of the calls made
VaultPart(ev, v, uid) ==
    IF v.first.a = "response"
    THEN [result |-> IF Truthy(v.first.accessToken)
                     THEN _inject_token_response(ev, v.first.accessToken)
                     ELSE _auth_required_response(v.first.authorizationUrl),
          calls |-> <<uid>>]
    ELSE IF v.first.a = "not_found"
    THEN [result |-> IF v.second.a = "response"
                     THEN _auth_required_response(v.second.authorizationUrl)
                     ELSE _error_response(500, "Failed to get authorization URL"),
          calls |-> <<uid, uid>>]
    ELSE [result |-> _error_response(500, "Token retrieval failed"),
          calls |-> <<uid>>]

\* Handler taking the sub claim first and the Google userId as the fallback
Handler_prefers_sub(ev, v) ==
    LET auth_header == AuthHeader(ev) IN
    IF auth_header.h # "bearer"
    THEN [result |-> _error_response(401, "Missing or invalid Authorization header"),
          calls |-> <<>>]
    ELSE LET decoded == decode_jwt_payload(auth_header.token) IN
         IF ~decoded.ok
         THEN [result |-> _error_response(401, "Invalid JWT"), calls |-> <<>>]
         ELSE LET extracted == extract_google_user_id(decoded.claims) IN
              IF ~extracted.ok
              THEN [result |-> Raised, calls |-> <<>>]
              ELSE LET google_user_id == IF Truthy(decoded.claims.sub)
                                         THEN decoded.claims.sub
                                         ELSE extracted.value IN
                   IF ~Truthy(google_user_id)
                   THEN [result |-> _error_response(401, "Cannot determine user identity"),
                         calls |-> <<>>]
                   ELSE VaultPart(ev, v, google_user_id)

\* handler(event, context) against a vault that answers as v
Handler(ev, v) ==
    LET auth_header == AuthHeader(ev) IN
    IF auth_header.h # "bearer"
    THEN [result |-> _error_response(401, "Missing or invalid Authorization header"),
          calls |-> <<>>]
    ELSE LET decoded == decode_jwt_payload(auth_header.token) IN
         IF ~decoded.ok
         THEN [result |-> _error_response(401, "Invalid JWT"), calls |-> <<>>]
         ELSE LET extracted == extract_google_user_id(decoded.claims) IN
              IF ~extracted.ok
              THEN [result |-> Raised, calls |-> <<>>]
              ELSE LET google_user_id == IF Truthy(extracted.value)
                                         THEN extracted.value
                                         ELSE decoded.claims.sub IN
                   IF ~Truthy(google_user_id)
                   THEN [result |-> _error_response(401, "Cannot determine user identity"),
                         calls |-> <<>>]
                   ELSE VaultPart(ev, v, google_user_id)

\* one invocation of the Lambda on the event, against the vault
handler ==
    /\ hresult = NotRun
    /\ hresult' = Handler(event, vault).result
    /\ vaultCalls' = Handler(event, vault).calls
    /\ UNCHANGED <<event, vault>>
    /\ UNCHANGED <<cvars, evars, fvars, svars, bvars>>

InterceptInit ==
    /\ event \in Events
    /\ vault \in Vaults
    /\ vaultCalls = <<>>
    /\ hresult = NotRun

InterceptNext == handler

(***************************************************************************)
(* Part III, continued.  The functions of interceptor.py on their own:     *)
(* each behaviour applies one of them to one choice of arguments.          *)
(***************************************************************************)
\* claims that name a Google user, for tokens that reach the vault
GoogleClaims ==
    [j |-> "object", sub |-> "sub-1",
     identities |-> [i |-> "list", items |-> <<Identity("Google", "g-1")>>]]

\* tokens with every kind of header, middle and signature segment, and
\* tokens of one, two and four segments
DecodeTokens ==
    {<<h, m, sg>> : h \in {Opaque, Junk}, sg \in {Opaque, Junk},
                    m \in {Junk, B64(GoodClaims), B64(GoogleClaims), B64([j |-> "array"])}}
    \cup {<<B64(GoodClaims)>>,
          <<Opaque, B64(GoodClaims)>>,
          <<Opaque, B64(GoodClaims), Opaque, Opaque>>}

\* the token an issuer makes of the payload p: header, the URL-safe base64
\* of p's JSON text without its "=", signature
IssuedToken(h, p) ==
    <<h, Text(StripPadding(urlsafe_b64encode(Encoded(json_dumps(p))))), Opaque>>

\* the same identities claim in its other form: a list as JSON text, a JSON
\* text as the list
Twin(c) ==
    CASE c.i = "list" -> [i |-> "text", parsed |-> c.items]
      [] c.i = "text" -> [i |-> "list", items |-> c.parsed]
      [] OTHER -> c

ClaimsWith(c) == [j |-> "object", sub |-> None, identities |-> c]

\* events as _inject_token_response may get them: with and without an
\* inbound Authorization header and body
InjectEvents ==
    {[Authorization |-> A, authorization |-> NoHeader, body |-> b] :
        A \in {NoHeader, Bearer(<<Opaque, B64(GoodClaims), Opaque>>)},
        b \in {"body-1", "body-2", None}}

AccessTokens == {"at-1", "at-2"}

\* the vault the handler is run against when two tokens are compared
GrantingVault == [first |-> VaultResponse("at-1", ""), second |-> VaultResponse("at-1", "")]

EventWith(token) ==
    [Authorization |-> Bearer(token), authorization |-> NoHeader, body |-> "body-1"]

\* ---- say_hello_to_authorized_customer/config.py ----------------------
\* required_vars, in the order the dict is written and iterated
RequiredVars ==
    <<[env_var |-> "AWS_REGION", config_key |-> "region"],
      [env_var |-> "GOOGLE_CLIENT_ID", config_key |-> "google_client_id"],
      [env_var |-> "GOOGLE_CLIENT_SECRET", config_key |-> "google_client_secret"],
      [env_var |-> "CALLBACK_URL", config_key |-> "callback_url"]>>

EnvVars == {RequiredVars[i].env_var : i \in DOMAIN RequiredVars}

\* os.environ: each variable unset (os.getenv gives None), empty, or set to
\* a value of its own
Environments == [EnvVars -> {None, ""}] \cup
    {[v \in EnvVars |-> IF v \in set THEN "val:" \o v ELSE e[v]] :
        set \in SUBSET EnvVars, e \in [EnvVars -> {None, ""}]}

\* what load_config gives: the dict as its set of <<key, value>> items, or
\* the ValueError it raised
Loaded(config) == [raised |-> FALSE, error |-> None, config |-> config]

LoadFailed(env_var) ==
    [raised |-> TRUE, error |-> "Missing required environment variable: " \o env_var,
     config |-> {}]

\* the loop of load_config from the i-th required variable on, with the
\* config filled so far
RECURSIVE LoadFrom(_, _, _)
LoadFrom(environ, i, config) ==
    IF i > Len(RequiredVars) THEN Loaded(config)
    ELSE LET value == environ[RequiredVars[i].env_var] IN
         IF Falsy(value) THEN LoadFailed(RequiredVars[i].env_var)
         ELSE LoadFrom(environ, i + 1, config \cup {<<RequiredVars[i].config_key, value>>})

\* load_config that skips a missing variable instead of raising
load_config_skips(environ) ==
    Loaded({<<RequiredVars[i].config_key, environ[RequiredVars[i].env_var]>> :
                i \in {j \in DOMAIN RequiredVars : ~Falsy(environ[RequiredVars[j].env_var])}})

load_config(environ) == LoadFrom(environ, 1, {})

\* ---- config.json as text: json.dump and json.load --------------------
\* characters a configuration string may hold beyond its length
MaxChars == 2

\* a letter, the letter of the \n escape, the two characters JSON escapes
\* with a backslash, a control character and a non-ASCII character
ConfigChars == {"a", "n", "\"", "\\", "<LF>", "<e-acute>"}

RECURSIVE StringsUpTo(_)
StringsUpTo(n) ==
    IF n = 0 THEN {<<>>}
    ELSE StringsUpTo(n - 1) \cup
         {Append(w, c) : w \in {v \in StringsUpTo(n - 1) : Len(v) = n - 1}, c \in ConfigChars}

ConfigStrings == StringsUpTo(MaxChars)

\* a dict of str to str, as its items in insertion order; keys are distinct
Configs ==
    {<<>>}
    \cup {<<[key |-> k, value |-> v]>> : k, v \in ConfigStrings}
    \cup {<<[key |-> k1, value |-> v], [key |-> k2, value |-> <<"a">>]>> :
            k1 \in {<<"a">>, <<"\\", "n">>}, k2 \in {<<>>, <<"\"">>, <<"<LF>">>},
            v \in {<<"n">>, <<"\\", "\"">>, <<"<e-acute>", "\\">>}}

\* py_encode_basestring_ascii without the escape of the backslash
EscapeChar_keeps_backslash(c) ==
    CASE c = "\"" -> <<"\\", "\"">>
      [] c = "<LF>" -> <<"\\", "n">>
      [] c = "<e-acute>" -> <<"\\", "u", "0", "0", "e", "9">>
      [] OTHER -> <<c>>

\* json's encoding of one character of a string (ensure_ascii is on)
EscapeChar(c) ==
    CASE c = "\"" -> <<"\\", "\"">>
      [] c = "\\" -> <<"\\", "\\">>
      [] c = "<LF>" -> <<"\\", "n">>
      [] c = "<e-acute>" -> <<"\\", "u", "0", "0", "e", "9">>
      [] OTHER -> <<c>>

RECURSIVE EscapeAll(_)
EscapeAll(str) == IF str = <<>> THEN <<>> ELSE EscapeChar(Head(str)) \o EscapeAll(Tail(str))

EncodeString(str) == <<"\"">> \o EscapeAll(str) \o <<"\"">>

\* the items of a dict with indent=2: each on a line of its own
RECURSIVE DumpItems(_)
DumpItems(items) ==
    IF items = <<>> THEN <<>>
    ELSE <<"<LF>", " ", " ">> \o EncodeString(Head(items).key) \o <<":", " ">>
             \o EncodeString(Head(items).value)
             \o (IF Len(items) > 1 THEN <<",">> ELSE <<>>)
             \o DumpItems(Tail(items))

\* json.dump(config, f, indent=2): the characters written to the file
json_dump(config) ==
    IF config = <<>> THEN <<"{", "}">>
    ELSE <<"{">> \o DumpItems(config) \o <<"<LF>", "}">>

\* the scanner of json.load: a result, the position after it, or a failure
Scanned(ok, value, next) == [ok |-> ok, value |-> value, next |-> next]

ScanFailed == Scanned(FALSE, <<>>, 0)

\* skip whitespace from position i
RECURSIVE SkipSpace(_, _)
SkipSpace(text, i) ==
    IF i <= Len(text) /\ text[i] \in {" ", "<LF>"} THEN SkipSpace(text, i + 1) ELSE i

\* the characters of a string whose opening quote has been read, from
\* position i to the closing quote
RECURSIVE ScanChars(_, _, _)
ScanChars(text, i, acc) ==
    IF i > Len(text) THEN ScanFailed
    ELSE IF text[i] = "\"" THEN Scanned(TRUE, acc, i + 1)
    ELSE IF text[i] = "<LF>" THEN ScanFailed
    ELSE IF text[i] # "\\" THEN ScanChars(text, i + 1, Append(acc, text[i]))
    ELSE IF i + 1 > Len(text) THEN ScanFailed
    ELSE IF text[i + 1] \in {"\"", "\\"} THEN ScanChars(text, i + 2, Append(acc, text[i + 1]))
    ELSE IF text[i + 1] = "n" THEN ScanChars(text, i + 2, Append(acc, "<LF>"))
    ELSE IF text[i + 1] = "u" /\ i + 5 <= Len(text)
            /\ SubSeq(text, i + 2, i + 5) = <<"0", "0", "e", "9">>
    THEN ScanChars(text, i + 6, Append(acc, "<e-acute>"))
    ELSE ScanFailed

ScanString(text, i) ==
    IF i <= Len(text) /\ text[i] = "\"" THEN ScanChars(text, i + 1, <<>>) ELSE ScanFailed

\* the items of an object from position i, which follows "{" or ","
RECURSIVE ScanItems(_, _, _)
ScanItems(text, i, acc) ==
    LET k == ScanString(text, SkipSpace(text, i)) IN
    IF ~k.ok THEN ScanFailed
    ELSE LET colon == SkipSpace(text, k.next) IN
    IF colon > Len(text) \/ text[colon] # ":" THEN ScanFailed
    ELSE LET v == ScanString(text, SkipSpace(text, colon + 1)) IN
    IF ~v.ok THEN ScanFailed
    ELSE LET items == Append(acc, [key |-> k.value, value |-> v.value])
             after == SkipSpace(text, v.next) IN
    IF after > Len(text) THEN ScanFailed
    ELSE IF text[after] = "," THEN ScanItems(text, after + 1, items)
    ELSE IF text[after] = "}" THEN Scanned(TRUE, items, after + 1)
    ELSE ScanFailed

\* json.load(f) of a file holding an object of strings: the dict, or
\* JSONDecodeError
json_load(text) ==
    LET open == SkipSpace(text, 1) IN
    IF open > Len(text) \/ text[open] # "{" THEN [ok |-> FALSE, value |-> <<>>]
    ELSE LET first == SkipSpace(text, open + 1)
             obj == IF first <= Len(text) /\ text[first] = "}"
                    THEN Scanned(TRUE, <<>>, first + 1)
                    ELSE ScanItems(text, open + 1, <<>>) IN
    IF obj.ok /\ SkipSpace(text, obj.next) > Len(text)
    THEN [ok |-> TRUE, value |-> obj.value]
    ELSE [ok |-> FALSE, value |-> <<>>]

\* save_config(config): what config.json holds afterwards
save_config(config) == json_dump(config)

Probes ==
    {[fn |-> "decode_jwt_payload", a |-> ta, b |-> tb] : ta, tb \in DecodeTokens}
    \cup {[fn |-> "decode_issued", payload |-> p, token |-> IssuedToken(h, p)] :
            p \in JsonObjects, h \in {Opaque, Junk}}
    \cup {[fn |-> "extract_google_user_id", claim |-> c] : c \in IdentitiesClaims}
    \cup {[fn |-> "_inject_token_response", event |-> e, access_token |-> t] :
            e \in InjectEvents, t \in AccessTokens}
    \cup {[fn |-> "load_config", environ |-> e] : e \in Environments}
    \cup {[fn |-> "save_config", config |-> c] : c \in Configs}

NoAnswer == [fn |-> "none"]

\* decode_jwt_payload on two tokens, and the userIdentifiers handler passes
\* to the vault for each
call_decode_jwt_payload ==
    /\ probe.fn = "decode_jwt_payload"
    /\ answer = NoAnswer
    /\ answer' = [fn |-> probe.fn,
                  a |-> decode_jwt_payload(probe.a),
                  b |-> decode_jwt_payload(probe.b),
                  callsA |-> Handler(EventWith(probe.a), GrantingVault).calls,
                  callsB |-> Handler(EventWith(probe.b), GrantingVault).calls]
    /\ UNCHANGED probe
    /\ UNCHANGED <<cvars, evars, ivars, svars, bvars>>

\* decode_jwt_payload on a token issued for a payload, with the "=" it adds
call_decode_issued ==
    /\ probe.fn = "decode_issued"
    /\ answer = NoAnswer
    /\ answer' = [fn |-> probe.fn,
                  padding |-> Padding(probe.token[2].chars),
                  decoded |-> decode_jwt_payload(probe.token)]
    /\ UNCHANGED probe
    /\ UNCHANGED <<cvars, evars, ivars, svars, bvars>>

\* extract_google_user_id on a claim and on the same claim in its other form
call_extract_google_user_id ==
    /\ probe.fn = "extract_google_user_id"
    /\ answer = NoAnswer
    /\ answer' = [fn |-> probe.fn,
                  result |-> extract_google_user_id(ClaimsWith(probe.claim)),
                  twin |-> extract_google_user_id(ClaimsWith(Twin(probe.claim)))]
    /\ UNCHANGED probe
    /\ UNCHANGED <<cvars, evars, ivars, svars, bvars>>

\* _inject_token_response on an event: its result; the event is only read
call_inject_token_response ==
    /\ probe.fn = "_inject_token_response"
    /\ answer = NoAnswer
    /\ answer' = [fn |-> probe.fn,
                  result |-> _inject_token_response(probe.event, probe.access_token)]
    /\ UNCHANGED probe
    /\ UNCHANGED <<cvars, evars, ivars, svars, bvars>>

\* load_config under one environment
call_load_config ==
    /\ probe.fn = "load_config"
    /\ answer = NoAnswer
    /\ answer' = [fn |-> probe.fn, result |-> load_config(probe.environ)]
    /\ UNCHANGED probe
    /\ UNCHANGED <<cvars, evars, ivars, svars, bvars>>

\* save_config, then the json.load of the file by cleanup or main
call_save_config ==
    /\ probe.fn = "save_config"
    /\ answer = NoAnswer
    /\ answer' = [fn |-> probe.fn,
                  file |-> save_config(probe.config),
                  loaded |-> json_load(save_config(probe.config))]
    /\ UNCHANGED probe
    /\ UNCHANGED <<cvars, evars, ivars, svars, bvars>>

FunctionsInit ==
    /\ probe \in Probes
    /\ answer = NoAnswer

FunctionsNext ==
    \/ call_decode_jwt_payload
    \/ call_decode_issued
    \/ call_extract_google_user_id
    \/ call_inject_token_response
    \/ call_load_config
    \/ call_save_config

(***************************************************************************)
(* Part IV.  The clients of the gateway:                                   *)
(* mcp-server-with-oauth-gateway/server.py (call_gateway_tool and the two  *)
(* GitHub tools), oauth-gateway-from-browser/agent.py (greet_user) and     *)
(* oauth-gateway-from-agent/main.py (handle_oauth_flow).  Each behaviour   *)
(* is one invocation of one of them against one choice of gateway answers. *)
(***************************************************************************)
\* the context argument of the MCP tools.  isNone: the tool got no context;
\* hasAuth: it has an "auth" dict; hasBearer: that dict has "bearer_token"
Context(isNone, hasAuth, hasBearer, bearer_token) ==
    [isNone |-> isNone, hasAuth |-> hasAuth, hasBearer |-> hasBearer,
     bearer_token |-> bearer_token]

EmptyContext == Context(FALSE, FALSE, FALSE, None)

Contexts ==
    {EmptyContext,
     Context(FALSE, TRUE, FALSE, None),
     Context(FALSE, TRUE, TRUE, None),
     Context(FALSE, TRUE, TRUE, ""),
     Context(FALSE, TRUE, TRUE, "jwt-1")}

\* get_user_repos(context=None) is how the tool is called without arguments
ToolContexts == Contexts \cup {Context(TRUE, FALSE, FALSE, None)}

\* context.get("auth", {}).get("bearer_token")
bearer_token_of(context) ==
    IF context.hasAuth /\ context.hasBearer THEN context.bearer_token ELSE None

\* an entry of error.data.elicitations; url and elicitationId may be missing
Elicitation(hasUrl, url, hasId) ==
    [hasUrl |-> hasUrl, url |-> url, hasId |-> hasId,
     elicitationId |-> IF hasId THEN "e:" \o url ELSE None]

\* parse_qs(urlparse(auth_url).query).get("request_uri", [""])[0]
RequestUri(auth_url) ==
    CASE auth_url = "https://idp/authorize?request_uri=s1" -> "s1"
      [] auth_url = "https://idp/authorize?request_uri=s2" -> "s2"
      [] OTHER -> ""

ElicitationLists ==
    {<<>>,
     <<Elicitation(TRUE, "https://idp/authorize?request_uri=s1", TRUE)>>,
     <<Elicitation(TRUE, "https://idp/authorize?request_uri=s2", TRUE),
       Elicitation(TRUE, "https://idp/authorize?request_uri=s1", TRUE)>>,
     <<Elicitation(TRUE, "https://idp/authorize", TRUE)>>,
     <<Elicitation(TRUE, "https://idp/authorize?request_uri=s1", FALSE)>>,
     <<Elicitation(FALSE, None, TRUE)>>}

\* error.data: absent, a dict without "elicitations", or a dict with the list
Data(d, elicitations) == [d |-> d, elicitations |-> elicitations]

NoData == Data("absent", <<>>)

ErrorData == {NoData, Data("nokey", <<>>)} \cup {Data("list", l) : l \in ElicitationLists}

\* a JSON-RPC response as response.json() gives it.  shape: which of "error"
\* and "result" the dict has; content: what result.content[0].text holds
Json(shape, code, data, content) ==
    [shape |-> shape, code |-> code, data |-> data, content |-> content]

JsonError(code, data) == Json("error", code, data, "none")

JsonResult(content) == Json("result", 0, NoData, content)

JsonOther == Json("other", 0, NoData, "none")

\* result.content[0].text: a JSON list of repositories, a JSON user object,
\* a YouTube listing with items, or anything the tools cannot read
Contents == {"repos", "profile", "items", "bad"}

JsonResponses ==
    {JsonError(c, d) : c \in {ElicitationCode, -32000}, d \in ErrorData}
    \cup {JsonResult(c) : c \in Contents}
    \cup {JsonOther}

\* what requests.post returns: the status and the body, which may not be JSON
Http(status_code, isJson, json) ==
    [status_code |-> status_code, isJson |-> isJson, json |-> json]

HttpAnswers ==
    {Http(200, TRUE, j) : j \in JsonResponses}
    \cup {Http(200, FALSE, JsonOther), Http(500, FALSE, JsonOther),
          Http(500, TRUE, JsonError(-32000, NoData))}

\* error.get("data", {}).get("elicitations", [])
elicitations_of(result) ==
    IF result.data.d = "list" THEN result.data.elicitations ELSE <<>>

\* the request a client posts to the gateway
Post(tool_name, bearer_token) ==
    [tool_name |-> tool_name, Authorization |-> "Bearer " \o bearer_token]

\* ---- mcp-server-with-oauth-gateway/server.py --------------------------
NoBearerToken == "No bearer token provided. User must authenticate first."

\* what call_gateway_tool hands back.  r = "error_string": a dict whose
\* "error" is a str; "oauth_required": the elicitation dict; "passed": the
\* gateway's JSON as it is; "raised": an exception left the function
GatewayToolResult(r, error, auth_url, elicitation_id, json) ==
    [r |-> r, error |-> error, auth_url |-> auth_url,
     elicitation_id |-> elicitation_id, json |-> json]

\* call_gateway_tool that posts before it looks at the bearer token
call_gateway_tool_posts_first(tool_name, context, http) ==
    LET bearer_token == bearer_token_of(context) IN
    IF Falsy(bearer_token)
    THEN [result |-> GatewayToolResult("error_string", NoBearerToken, None, None, JsonOther),
          posts |-> <<Post(tool_name, bearer_token)>>]
    ELSE [result |-> GatewayToolResult("passed", None, None, None, http.json),
          posts |-> <<Post(tool_name, bearer_token)>>]

call_gateway_tool(tool_name, context, http) ==
    LET bearer_token == bearer_token_of(context) IN
    IF Falsy(bearer_token)
    THEN [result |-> GatewayToolResult("error_string", NoBearerToken, None, None, JsonOther),
          posts |-> <<>>]
    ELSE LET posts == <<Post(tool_name, bearer_token)>> IN
    IF http.status_code # 200
    THEN [result |-> GatewayToolResult("error_string", "Gateway returned HTTP", None, None, JsonOther),
          posts |-> posts]
    ELSE IF ~http.isJson
    THEN [result |-> GatewayToolResult("raised", "JSONDecodeError", None, None, JsonOther),
          posts |-> posts]
    ELSE LET result == http.json
             elicitations == elicitations_of(result) IN
    IF result.shape = "error" /\ result.code = ElicitationCode /\ elicitations # <<>>
    THEN [result |-> GatewayToolResult("oauth_required", None,
                        IF elicitations[1].hasUrl THEN elicitations[1].url ELSE None,
                        elicitations[1].elicitationId, JsonOther),
          posts |-> posts]
    ELSE [result |-> GatewayToolResult("passed", None, None, None, result),
          posts |-> posts]

\* what a tool gives its caller: a JSON string with a status, or an exception
ToolReturn(status, auth_url) == [raised |-> FALSE, exc |-> None, status |-> status, auth_url |-> auth_url]

ToolRaise(exc) == [raised |-> TRUE, exc |-> exc, status |-> None, auth_url |-> None]

\* context or {}
OrEmpty(context) == IF context.isNone THEN EmptyContext ELSE context

get_user_repos(context, http) ==
    LET c == call_gateway_tool("GitHubTarget___getUserRepos", OrEmpty(context), http)
        result == c.result
        tool ==
            IF result.r = "raised" THEN ToolRaise(result.error)
            ELSE IF result.r = "oauth_required"
            THEN ToolReturn("oauth_required", result.auth_url)
            ELSE IF result.r = "error_string"
            THEN ToolRaise("AttributeError")
            ELSE IF result.json.shape = "error"
            THEN ToolReturn("error", None)
            ELSE IF result.json.shape = "result"
            THEN IF result.json.content = "repos"
                 THEN ToolReturn("success", None)
                 ELSE ToolRaise("content")
            ELSE ToolReturn("error", None)
    IN [out |-> tool, posts |-> c.posts]

get_user_profile(context, http) ==
    LET c == call_gateway_tool("GitHubTarget___getUserProfile", OrEmpty(context), http)
        result == c.result
        tool ==
            IF result.r = "raised" THEN ToolRaise(result.error)
            ELSE IF result.r = "oauth_required"
            THEN ToolReturn("oauth_required", result.auth_url)
            ELSE IF result.r = "error_string"
            THEN ToolRaise("AttributeError")
            ELSE IF result.json.shape = "error"
            THEN ToolReturn("error", None)
            ELSE IF result.json.shape = "result"
            THEN IF result.json.content = "profile"
                 THEN ToolReturn("success", None)
                 ELSE ToolRaise("content")
            ELSE ToolReturn("error", None)
    IN [out |-> tool, posts |-> c.posts]

\* ---- oauth-gateway-from-browser/agent.py ------------------------------
\* agent.py's call_gateway_tool: a non-200 status and a body that is not
\* JSON both become an error dict of code -1
agent_call_gateway_tool(http) ==
    IF http.status_code # 200 THEN JsonError(-1, NoData)
    ELSE IF ~http.isJson THEN JsonError(-1, NoData)
    ELSE http.json

greet_user_posts_both(http1, http2) ==
    LET channel_result == agent_call_gateway_tool(http1)
        subs_result == agent_call_gateway_tool(http2)
        both == <<Post("YouTubeTarget___getChannels", "jwt-1"),
                  Post("YouTubeTarget___getSubscriptions", "jwt-1")>>
    IN
    IF channel_result.shape = "error" \/ subs_result.shape = "error"
    THEN [out |-> ToolReturn("error", None), posts |-> both]
    ELSE [out |-> ToolReturn("success", None), posts |-> both]

\* greet_user: getChannels first; an error member ends the call (the
\* elicitation's first entry read with [0], ["url"], ["elicitationId"]);
\* only then getSubscriptions, whose error member ends the call; then both
\* texts are parsed and indexed, which raises on anything but a listing
greet_user(http1, http2) ==
    LET channel_result == agent_call_gateway_tool(http1)
        subs_result == agent_call_gateway_tool(http2)
        first == <<Post("YouTubeTarget___getChannels", "jwt-1")>>
        both == Append(first, Post("YouTubeTarget___getSubscriptions", "jwt-1"))
    IN
    IF channel_result.shape = "error"
    THEN IF channel_result.code = ElicitationCode /\ channel_result.data.d = "list"
         THEN LET l == channel_result.data.elicitations IN
              IF l = <<>> THEN [out |-> ToolRaise("IndexError"), posts |-> first]
              ELSE IF ~l[1].hasUrl \/ ~l[1].hasId
              THEN [out |-> ToolRaise("KeyError"), posts |-> first]
              ELSE [out |-> ToolReturn("oauth_required", l[1].url), posts |-> first]
         ELSE [out |-> ToolReturn("error", None), posts |-> first]
    ELSE IF subs_result.shape = "error"
    THEN [out |-> ToolReturn("error", None), posts |-> both]
    ELSE IF /\ channel_result.shape = "result" /\ channel_result.content = "items"
            /\ subs_result.shape = "result" /\ subs_result.content = "items"
    THEN [out |-> ToolReturn("success", None), posts |-> both]
    ELSE [out |-> ToolRaise("content"), posts |-> both]

\* ---- oauth-gateway-from-agent/main.py ---------------------------------
\* call_youtube_api: a non-200 status becomes an error dict of code -1; the
\* body of a 200 goes through resp.json()
call_youtube_api(http) ==
    IF http.status_code # 200 THEN [raised |-> FALSE, json |-> JsonError(-1, NoData)]
    ELSE IF ~http.isJson THEN [raised |-> TRUE, json |-> JsonOther]
    ELSE [raised |-> FALSE, json |-> http.json]

\* the dict as handle_oauth_flow reads it: whether it has "error", the code,
\* and the first elicitation's URL by its request_uri
AsReply(result) ==
    LET l == elicitations_of(result) IN
    Reply(result.shape = "error", result.code,
          IF l = <<>> THEN <<>> ELSE <<Url(RequestUri(l[1].url))>>)

\* main.py's handle_oauth_flow up to webbrowser.open: "authorized" and
\* "failed" are its True and False, "wait" is the browser opened on auth_url
handle_oauth_flow(http) ==
    LET api == call_youtube_api(http)
        result == api.json
        l == elicitations_of(result) IN
    IF api.raised THEN [d |-> "raised", auth_url |-> None]
    ELSE IF /\ result.shape = "error" /\ result.code = ElicitationCode
            /\ l # <<>> /\ ~l[1].hasUrl
    THEN [d |-> "raised", auth_url |-> None]
    ELSE LET dec == FlowDecision(AsReply(result)) IN
         [d |-> dec.d, auth_url |-> IF dec.d = "wait" THEN l[1].url ELSE None]

\* ---- the invocations ---------------------------------------------------
Calls ==
    {[tool |-> "call_gateway_tool", context |-> c, http |-> h] :
        c \in Contexts, h \in HttpAnswers}
    \cup {[tool |-> t, context |-> c, http |-> h] :
        t \in {"get_user_repos", "get_user_profile"}, c \in ToolContexts, h \in HttpAnswers}
    \cup {[tool |-> "greet_user", http |-> h1, http2 |-> h2] :
        h1 \in HttpAnswers,
        h2 \in {Http(200, TRUE, JsonResult("items")), Http(200, TRUE, JsonResult("bad")),
                Http(200, TRUE, JsonError(-32000, NoData)), Http(500, FALSE, JsonOther)}}
    \cup {[tool |-> "handle_oauth_flow", http |-> h] : h \in HttpAnswers}

NoReturn == [tool |-> "none"]

invoke_call_gateway_tool ==
    /\ call.tool = "call_gateway_tool"
    /\ ret = NoReturn
    /\ LET c == call_gateway_tool("GitHubTarget___getUserRepos", call.context, call.http) IN
       ret' = [tool |-> call.tool, result |-> c.result, posts |-> c.posts]
    /\ UNCHANGED call
    /\ UNCHANGED <<cvars, evars, ivars, fvars, bvars>>

invoke_get_user_repos ==
    /\ call.tool = "get_user_repos"
    /\ ret = NoReturn
    /\ LET t == get_user_repos(call.context, call.http) IN
       ret' = [tool |-> call.tool, out |-> t.out, posts |-> t.posts]
    /\ UNCHANGED call
    /\ UNCHANGED <<cvars, evars, ivars, fvars, bvars>>

invoke_get_user_profile ==
    /\ call.tool = "get_user_profile"
    /\ ret = NoReturn
    /\ LET t == get_user_profile(call.context, call.http) IN
       ret' = [tool |-> call.tool, out |-> t.out, posts |-> t.posts]
    /\ UNCHANGED call
    /\ UNCHANGED <<cvars, evars, ivars, fvars, bvars>>

invoke_greet_user ==
    /\ call.tool = "greet_user"
    /\ ret = NoReturn
    /\ LET t == greet_user(call.http, call.http2) IN
       ret' = [tool |-> call.tool, out |-> t.out, posts |-> t.posts]
    /\ UNCHANGED call
    /\ UNCHANGED <<cvars, evars, ivars, fvars, bvars>>

invoke_handle_oauth_flow ==
    /\ call.tool = "handle_oauth_flow"
    /\ ret = NoReturn
    /\ ret' = [tool |-> call.tool, flow |-> handle_oauth_flow(call.http)]
    /\ UNCHANGED call
    /\ UNCHANGED <<cvars, evars, ivars, fvars, bvars>>

ToolsInit ==
    /\ call \in Calls
    /\ ret = NoReturn

ToolsNext ==
    \/ invoke_call_gateway_tool
    \/ invoke_get_user_repos
    \/ invoke_get_user_profile
    \/ invoke_greet_user
    \/ invoke_handle_oauth_flow

(***************************************************************************)
(* Part V.  say-hello-to-authorized-customer: the OAuth2CallbackServer of  *)
(* the package (say_hello_to_authorized_customer/oauth2_callback_server.py)*)
(* and the one main.py runs (oauth2_callback_server.py).  The handlers are *)
(* coroutines without an await inside: each request is handled in one step.*)
(***************************************************************************)
\* requests and calls handled in one behaviour
MaxRequests == 4

Users == {"alice", "bob"}

\* the access token Cognito issues for the code of a user's login
AccessTokenOf(u) == "at:" \o u

UserTokenIdentifiers == {"uti-1", "uti-2"}

\* an OAuth2CallbackServer object of the package; serving: an HTTP server
\* runs its app
Server(user_token_identifier, serving) ==
    [user_token_identifier |-> user_token_identifier, serving |-> serving]

Op(op, t, after) == [op |-> op, t |-> t, after |-> after]

\* store_token_in_oauth2_callback_server(identity_client, t): constructs an
\* OAuth2CallbackServer, sets its attribute and returns; nothing serves the
\* new object
store_token_in_oauth2_callback_server ==
    \E t \in UserTokenIdentifiers :
        /\ handled < MaxRequests
        /\ servers' = Append(servers, Server(t, FALSE))
        /\ lastOp' = Op("store_token_in_oauth2_callback_server", t, lastOp.op)
        /\ handled' = handled + 1
        /\ UNCHANGED <<flows, self_access_token, elicited, bindings>>
        /\ UNCHANGED <<cvars, evars, ivars, fvars, svars>>

\* POST /userIdentifier/token on a serving object
_store_user_token ==
    \E i \in DOMAIN servers, t \in UserTokenIdentifiers :
        /\ handled < MaxRequests
        /\ servers[i].serving
        /\ servers' = [servers EXCEPT ![i].user_token_identifier = t]
        /\ lastOp' = Op("_store_user_token", t, lastOp.op)
        /\ handled' = handled + 1
        /\ UNCHANGED <<flows, self_access_token, elicited, bindings>>
        /\ UNCHANGED <<cvars, evars, ivars, fvars, svars>>

\* GET /oauth2/callback on a serving object: complete_oauth_flow with the
\* object's user_token_identifier
_handle_oauth2_callback ==
    \E i \in DOMAIN servers, sid \in Sids :
        /\ handled < MaxRequests
        /\ servers[i].serving
        /\ flows' = Append(flows, [session_id |-> sid,
                                   user_token_identifier |-> servers[i].user_token_identifier])
        /\ lastOp' = Op("_handle_oauth2_callback", lastOp.t, lastOp.op)
        /\ handled' = handled + 1
        /\ UNCHANGED <<servers, self_access_token, elicited, bindings>>
        /\ UNCHANGED <<cvars, evars, ivars, fvars, svars>>

\* GET /cognito/callback of the server main.py runs: the code of user u is
\* exchanged for u's access token, which is kept in self.access_token and
\* written to /tmp/access_token.txt; then greet_user, whose oauth_required
\* answer is a new session of the gateway.  A reply without access_token
\* raises before anything is stored.  greet_user is imported inside the
\* handler, after the token is stored, from the package's agent module,
\* which defines no greet_user in this tree (tests/test_agent.py expects
\* one): "ImportError" is that outcome, the other three are the statuses
\* of a greet_user as oauth-gateway-from-browser defines it
_handle_cognito_callback ==
    \E u \in Users, exchanged \in BOOLEAN,
       status \in {"oauth_required", "error", "success", "ImportError"} :
        /\ handled < MaxRequests
        /\ IF exchanged
           THEN /\ self_access_token' = [server |-> AccessTokenOf(u), file |-> AccessTokenOf(u)]
                /\ elicited' = IF status = "oauth_required" THEN Append(elicited, u) ELSE elicited
           ELSE UNCHANGED <<self_access_token, elicited>>
        /\ lastOp' = Op("_handle_cognito_callback", None, lastOp.op)
        /\ handled' = handled + 1
        /\ UNCHANGED <<servers, flows, bindings>>
        /\ UNCHANGED <<cvars, evars, ivars, fvars, svars>>

\* GET /oauth2/callback of the server main.py runs, for a session the gateway
\* has elicited: complete_resource_token_auth with self.access_token; the
\* greet_user that follows changes nothing here
_handle_youtube_callback ==
    \E s \in DOMAIN elicited :
        /\ handled < MaxRequests
        /\ bindings' = Append(bindings, [sessionUri |-> s, userToken |-> self_access_token.server])
        /\ lastOp' = Op("_handle_youtube_callback", None, lastOp.op)
        /\ handled' = handled + 1
        /\ UNCHANGED <<servers, flows, self_access_token, elicited>>
        /\ UNCHANGED <<cvars, evars, ivars, fvars, svars>>

\* one object of the package constructed and served, the server of main.py
\* constructed: user_token_identifier and access_token are None
CallbackInit ==
    /\ servers = <<Server(None, TRUE)>>
    /\ flows = <<>>
    /\ lastOp = Op("none", None, "none")
    /\ self_access_token = [server |-> None, file |-> None]
    /\ elicited = <<>>
    /\ bindings = <<>>
    /\ handled = 0

CallbackNext ==
    \/ store_token_in_oauth2_callback_server
    \/ _store_user_token
    \/ _handle_oauth2_callback
    \/ _handle_cognito_callback
    \/ _handle_youtube_callback

(***************************************************************************)
(* The specifications: each part runs with the others at rest; every       *)
(* action leaves the variables of the other parts unchanged.               *)
(***************************************************************************)
ElicitParked ==
    /\ epc = "idle"
    /\ gwResult = NoReply
    /\ sessions = [sid \in Sids |-> NoItem]
    /\ session_id = ""
    /\ reads = <<>>
    /\ pollStatus = "NONE"
    /\ gwCalls = <<>>
    /\ resolvedAt = <<>>
    /\ sideEffects = <<>>
    /\ toolResult = NotReturned
    /\ user_token = ""

ConstructParked == ConstructInit /\ script = "mcp"

InterceptParked ==
    /\ event = [Authorization |-> NoHeader, authorization |-> NoHeader, body |-> "body-1"]
    /\ vault = [first |-> [a |-> "error"], second |-> [a |-> "error"]]
    /\ vaultCalls = <<>>
    /\ hresult = NotRun

FunctionsParked == probe = [fn |-> "none"] /\ answer = NoAnswer

ToolsParked == call = [tool |-> "none"] /\ ret = NoReturn

CallbackParked == CallbackInit

OthersParked == FunctionsParked /\ ToolsParked /\ CallbackParked

InitConstruct == ConstructInit /\ ElicitParked /\ InterceptParked /\ OthersParked

SpecConstruct == InitConstruct /\ [][ConstructNext]_vars

InitElicit == ConstructParked /\ ElicitInit /\ InterceptParked /\ OthersParked

SpecElicit == InitElicit /\ [][ElicitNext]_vars

InitIntercept == ConstructParked /\ ElicitParked /\ InterceptInit /\ OthersParked

SpecIntercept == InitIntercept /\ [][InterceptNext]_vars

InitFunctions ==
    /\ ConstructParked /\ ElicitParked /\ InterceptParked /\ FunctionsInit
    /\ ToolsParked /\ CallbackParked

SpecFunctions == InitFunctions /\ [][FunctionsNext]_vars

InitTools ==
    /\ ConstructParked /\ ElicitParked /\ InterceptParked /\ FunctionsParked
    /\ ToolsInit /\ CallbackParked

SpecTools == InitTools /\ [][ToolsNext]_vars

InitCallback ==
    /\ ConstructParked /\ ElicitParked /\ InterceptParked /\ FunctionsParked
    /\ ToolsParked /\ CallbackInit

SpecCallback == InitCallback /\ [][CallbackNext]_vars

\* The wait loops on their own: the first build of either script up to its
\* create_gateway call, then the wait loop of create_gateway against a
\* gateway service that reports any status and a get_gateway that may raise.
\* What follows create_gateway (the target, the configuration file, later
\* runs, cleanups) is left to SpecConstruct.
first_build_to_gateway ==
    /\ pc = "idle" => runNo = 0
    /\ \/ mcp_main
       \/ mcp_create_gateway_role
       \/ mcp_create_runtime_role
       \/ mcp_create_workload_identity
       \/ mcp_create_oauth_provider
       \/ mcp_create_gateway
       \/ hello_main
       \/ hello_create_gateway_role
       \/ hello_create_cognito_resources
       \/ hello_create_workload_identity
       \/ hello_create_oauth_provider
       \/ hello_create_gateway

WaitNext ==
    \/ first_build_to_gateway
    \/ mcp_create_gateway_wait
    \/ hello_create_gateway_wait
    \/ GatewaySettles

\* the scripts under their scheduling: a script is one sequential process
\* that keeps running, so a turn of a wait loop that can be taken is taken,
\* and the gateway service settles every gateway it is creating.  No
\* fairness makes get_gateway raise: the fair step of the say-hello loop is
\* the poll that returns, which changes the state only when it sees READY
SpecWait ==
    /\ InitConstruct
    /\ [][WaitNext]_vars
    /\ WF_vars(mcp_create_gateway_wait)
    /\ WF_vars(hello_create_gateway_wait /\ UNCHANGED faults)
    /\ WF_vars(GatewaySettles)

\* the scripts are the repository's entry points: the default specification
Init == InitConstruct

Next == ConstructNext

Spec == Init /\ [][Next]_vars

(***************************************************************************)
(* Properties of Part I (specification SpecConstruct).                     *)
(***************************************************************************)
\* the delete calls of each script's cleanup, in program order, for the dict
\* it loaded
CleanupDeletes(s, data) ==
    IF s = "mcp"
    THEN <<Call("delete_runtime", data.runtime_id),
           Call("delete_gateway_target", data.target_id),
           Call("delete_gateway", data.gateway_id),
           Call("delete_oauth2_credential_provider", data.provider_name),
           Call("delete_workload_identity", data.identity_name),
           Call("delete_role", data.gateway_role_name),
           Call("delete_role", data.runtime_role_name)>>
    ELSE <<Call("delete_gateway_target", data.target_id),
           Call("delete_gateway", data.gateway_id),
           Call("delete_oauth2_credential_provider", data.provider_arn),
           Call("delete_workload_identity", data.identity_arn),
           Call("delete_user_pool_domain", Res("domain", data.user_pool_id[2])),
           Call("delete_user_pool", data.user_pool_id),
           Call("delete_role", data.role_arn)>>

\* the first call of each try block of each script's cleanup, in program order
CleanupBlockStarts(s, data) ==
    IF s = "mcp"
    THEN <<Call("delete_runtime", data.runtime_id),
           Call("delete_gateway_target", data.target_id),
           Call("delete_gateway", data.gateway_id),
           Call("delete_oauth2_credential_provider", data.provider_name),
           Call("delete_workload_identity", data.identity_name),
           Call("list_attached_role_policies", data.gateway_role_name),
           Call("list_attached_role_policies", data.runtime_role_name)>>
    ELSE <<Call("delete_gateway_target", data.target_id),
           Call("delete_gateway", data.gateway_id),
           Call("delete_oauth2_credential_provider", data.provider_arn),
           Call("delete_workload_identity", data.identity_arn),
           Call("delete_user_pool_domain", Res("domain", data.user_pool_id[2])),
           Call("detach_role_policy", data.role_arn)>>

\* the current invocation made the call c / made it and it raised
Issued(c) == \E n \in DOMAIN calls : calls[n].op = c.op /\ calls[n].res = c.res

Failed(c) ==
    \E n \in DOMAIN calls : calls[n].op = c.op /\ calls[n].res = c.res /\ ~calls[n].ok

\* a construct or cleanup run has just ended
RunEnded(a) == pc = "idle" /\ exitStatus # -1 /\ args = a

\* a cleanup run that found and loaded config.json has just ended
CleanupEnded == RunEnded("cleanup") /\ configAtStart.exists

\* when r was created, as a position in the creation order
CreatedAt(r) == CHOOSE i \in DOMAIN createSeq : createSeq[i] = r

\* C1, as claimed: between runs, every resource-identifier key of an existing
\* config.json names a resource that exists.
C1_EveryKeyNamesAResource ==
    (pc = "idle" /\ config_file.exists) =>
        \A k \in ResourceKeys(config_file.data) : config_file.data[k] \in cloud

\* C1, amended: between runs, every resource-identifier key of an existing
\* config.json other than the mcp script's placeholders runtime_id and
\* runtime_arn (both "local") names a resource that exists.
C1_EveryKeyButRuntimeNamesAResource ==
    (pc = "idle" /\ config_file.exists) =>
        \A k \in ResourceKeys(config_file.data) \ {"runtime_id", "runtime_arn"} :
            config_file.data[k] \in cloud

\* C1's case: a construct run failed part-way while an earlier run's
\* config.json is in place
C1_Witness ==
    /\ RunEnded("construct")
    /\ lastRun = "failed"
    /\ created # {}
    /\ config_file.exists

\* C2, as claimed: the delete calls of a cleanup come in the reverse of the
\* order in which their resources were created.
C2_DeletesInReverseCreationOrder ==
    args = "cleanup" =>
        LET dels == SelectSeq(calls, LAMBDA c : c.op \in DeleteOps
                                                /\ c.res \in Range(createSeq)) IN
        \A i, j \in DOMAIN dels :
            i < j => CreatedAt(dels[i].res) > CreatedAt(dels[j].res)

\* C3: a construct run writes config.json at most once, only after every
\* creation step has returned and no call raised; a run that a raising call
\* ended leaves config.json as it found it.
C3_ConfigWrittenOnceAfterAllSteps ==
    args = "construct" =>
        /\ writes <= 1
        /\ writes = 1 =>
              /\ CreationSteps(script) \subseteq stepsDone
              /\ \A n \in DOMAIN calls : calls[n].ok
        /\ config_file # configAtStart => writes = 1
        /\ (pc = "idle" /\ lastRun = "failed") => config_file = configAtStart

\* C3's case: a run that created resources and then failed, with an earlier
\* config.json to preserve
C3_Witness ==
    /\ RunEnded("construct")
    /\ lastRun = "failed"
    /\ Cardinality(created) >= 3
    /\ configAtStart.exists

\* C4, as claimed: a cleanup that follows a construct run that failed part-way
\* deletes (issues the delete of, or otherwise removes) what that run created.
C4_CleanupDeletesPartialResources ==
    RunEnded("cleanup") =>
        \A r \in owed :
            r \notin cloud \/ \E n \in DOMAIN calls : calls[n].op \in DeleteOps
                                                      /\ calls[n].res = r

\* C5, as claimed: when a delete call of a cleanup raises, the failure is
\* printed and every delete call later in the cleanup order is still made.
C5_LaterDeletesStillAttempted ==
    CleanupEnded =>
        LET ds == CleanupDeletes(script, configAtStart.data) IN
        /\ printed = Cardinality({n \in DOMAIN calls : ~calls[n].ok})
        /\ \A i \in DOMAIN ds :
              Failed(ds[i]) => \A j \in (i + 1)..Len(ds) : Issued(ds[j])

\* two calls of one try block: the same resource, or the domain and its pool
SameBlock(a, b) ==
    a.res = b.res \/ (a.op = "delete_user_pool_domain" /\ b.op = "delete_user_pool")

\* C5, amended: when a call of a cleanup raises, the failure is printed and
\* every later try block is still entered; the only delete calls not made are
\* those that follow the raising call inside its own try block (the user
\* pool after its domain, a role after its list or detach).
C5_LaterBlocksStillAttempted ==
    CleanupEnded =>
        LET ds == CleanupDeletes(script, configAtStart.data)
            starts == CleanupBlockStarts(script, configAtStart.data) IN
        /\ printed = Cardinality({n \in DOMAIN calls : ~calls[n].ok})
        /\ \A i \in DOMAIN starts : Issued(starts[i])
        /\ \A j \in DOMAIN ds :
              ~Issued(ds[j]) =>
                  \E n \in DOMAIN calls : ~calls[n].ok /\ SameBlock(calls[n], ds[j])

\* C5's case: the domain's delete raised, the pool's delete was skipped, and
\* the role block after it still ran
C5_Witness ==
    /\ CleanupEnded
    /\ Failed(Call("delete_user_pool_domain", Res("domain", 1)))
    /\ ~Issued(Call("delete_user_pool", Res("user_pool", 1)))
    /\ Issued(Call("delete_role", Res("gateway_role", 1)))

\* C6: after a cleanup that found config.json, config.json is gone, whatever
\* the delete calls did.
C6_CleanupRemovesConfig == CleanupEnded => ~config_file.exists

\* C6's case: a cleanup in which some calls raised and some returned
C6_Witness ==
    /\ CleanupEnded
    /\ \E n \in DOMAIN calls : ~calls[n].ok /\ calls[n].op \in DeleteOps
    /\ \E n \in DOMAIN calls : calls[n].ok /\ calls[n].op \in DeleteOps

\* C7, as claimed: with the client id or secret missing, main exits with
\* status 1, has made no resource-creating call and has left config.json as
\* it was.
C7_MissingCredentialsExitOne ==
    (pc = "idle" /\ exitStatus # -1 /\ (~env.id \/ ~env.secret)) =>
        /\ exitStatus = 1
        /\ \A n \in DOMAIN calls : calls[n].op \notin CreateOps
        /\ config_file = configAtStart

\* C7, amended: invoked without --cleanup and with the client id or secret
\* missing, main exits with status 1, has made no SDK call and has left
\* config.json as it was.
C7_MissingCredentialsExitOneUnlessCleanup ==
    (args = "construct" /\ (~env.id \/ ~env.secret)) =>
        /\ pc = "idle"
        /\ exitStatus = 1
        /\ calls = <<>>
        /\ config_file = configAtStart

\* C7's case: the secret alone is missing, with a config.json in place
C7_Witness ==
    /\ RunEnded("construct")
    /\ env.id /\ ~env.secret
    /\ lastRun = "refused"
    /\ config_file.exists

\* C8, as claimed: create_gateway_target is called only after a get_gateway
\* poll of this run returned the script's ready status.
C8_TargetOnlyAfterReady ==
    \A n \in DOMAIN calls : calls[n].op = "create_gateway_target" => sawReady

\* C29: the wait loop of create_gateway (mcp) makes at most 30 get_gateway
\* polls and then create_gateway returns, whatever get_gateway reports or
\* raises: while waiting the counter stays within 0..30, every turn that
\* stays in the loop has counted one more poll, no turn leaves the function
\* by an exception, and the loop is eventually left for the next step.
C29_AtMostMaxPollsThenReturns ==
    /\ [][pc = "m_wait" =>
            /\ waiter_count \in 0..MaxPolls
            /\ pc' \in {"m_wait", "m_target"}
            /\ exitStatus' = exitStatus
            /\ pc' = "m_wait" =>
                  \/ waiter_count < MaxPolls /\ waiter_count' = waiter_count + 1
                  \/ /\ waiter_count' = waiter_count
                     /\ gwStatus = "CREATING" /\ gwStatus' # "CREATING"]_vars
    /\ (pc = "m_wait") ~> (pc = "m_target")

\* C29's case: create_gateway has returned without any poll having seen
\* AVAILABLE, after a get_gateway that raised
C29_Witness ==
    /\ script = "mcp"
    /\ pc = "m_target"
    /\ ~sawReady
    /\ \E n \in DOMAIN calls : calls[n].op = "create_gateway"
    /\ faults > 0

\* C30, as claimed: once the gateway has settled in a terminal status, the
\* wait loop of create_gateway (say-hello) is eventually left, by a return
\* or by an exception.
C30_WaitLoopTerminates == (pc = "h_wait") ~> (pc # "h_wait")

\* what does hold of that loop: a gateway that is READY ends it
HelloWaitEndsOnReady == (pc = "h_wait" /\ gwStatus = "READY") ~> (pc # "h_wait")

FlowSucceeded == epc = "retry" \/ (epc = "idle" /\ toolResult.kind = "json")

FlowFailed == epc = "idle" /\ toolResult.kind = "error"

\* the statuses poll_completion keeps waiting on
Pending == {NoItem.status} \cup (SessionStatuses \ {"COMPLETE", "FAILED"})

\* C13: handle_oauth_flow reports success only if the first gateway call
\* returned no error or poll_completion returned COMPLETE; a first reply that
\* is an error but no elicitation, has an empty elicitation list or a URL
\* without request_uri, and a poll that ended FAILED or TIMEOUT, are failures.
C13_SuccessOnlyWhenAuthorized ==
    gwCalls # <<>> =>
        LET first == gwCalls[1] IN
        /\ FlowSucceeded => (~first.hasError \/ pollStatus = "COMPLETE")
        /\ (/\ epc \in {"idle", "retry"}
            /\ first.hasError
            /\ \/ first.code # ElicitationCode
               \/ first.elicitations = <<>>
               \/ first.elicitations[1].request_uri = ""
               \/ pollStatus \in {"FAILED: ", "TIMEOUT"}) => FlowFailed

\* C13's case: the first reply was an elicitation and the poll ended COMPLETE
C13_Witness ==
    /\ epc = "retry"
    /\ gwCalls # <<>>
    /\ gwCalls[1].hasError
    /\ pollStatus = "COMPLETE"

\* C14: poll_completion returns COMPLETE only on a read of COMPLETE, "FAILED: "
\* only on a read of FAILED, TIMEOUT only when no read returned either; a
\* missing item or another status keeps it polling.
C14_PollResultFollowsReads ==
    /\ pollStatus = "COMPLETE" => (reads # <<>> /\ reads[Len(reads)] = "COMPLETE")
    /\ pollStatus = "FAILED: " => (reads # <<>> /\ reads[Len(reads)] = "FAILED")
    /\ pollStatus = "TIMEOUT" => \A i \in DOMAIN reads : reads[i] \in Pending
    /\ \A i \in DOMAIN reads : i < Len(reads) => reads[i] \in Pending
    /\ (reads # <<>> /\ reads[Len(reads)] \in Pending /\ pollStatus = "NONE")
          => epc = "poll"

\* C14's case: a missing item, then another status, then COMPLETE
C14_Witness ==
    /\ pollStatus = "COMPLETE"
    /\ Len(reads) = 3
    /\ reads[1] = "ABSENT"
    /\ reads[2] = "PROCESSING"

\* the browser has been opened on the authorization URL of this invocation
BrowserOpened == \E k \in DOMAIN sideEffects : sideEffects[k] = "webbrowser.open"

\* C25: in handle_oauth_flow the session record (the session id, the
\* encrypted user token, status PENDING when written) is in the session table
\* before the authorization URL is opened in the browser and before the
\* first poll: every webbrowser.open directly follows a store_session, a poll
\* is made only after the browser was opened, and from the opening on the
\* table holds a record for the session with the user's encrypted token, so
\* a callback for that session finds it.
C25_SessionStoredBeforeBrowserAndPoll ==
    /\ \A k \in DOMAIN sideEffects :
           sideEffects[k] = "webbrowser.open" =>
               k > 1 /\ sideEffects[k - 1] = "store_session"
    /\ reads # <<>> => BrowserOpened
    /\ BrowserOpened =>
           /\ session_id \in Sids
           /\ sessions[session_id].status \in SessionStatuses
           /\ sessions[session_id].encrypted_user_token = Encrypt(user_token)

\* the browser is open, no poll has been made yet, and the record is PENDING
C25_Witness ==
    /\ epc = "poll"
    /\ sideEffects = <<"store_session", "webbrowser.open">>
    /\ reads = <<>>
    /\ sessions[session_id] = [status |-> "PENDING", encrypted_user_token |-> Encrypt("tokenA")]

(***************************************************************************)
(* Properties of Part III (specification SpecIntercept).                   *)
(***************************************************************************)
\* C10, as claimed: handler returns a token-injecting transformedGatewayRequest
\* only if the vault returned a non-empty accessToken for the identified
\* user, otherwise a transformedGatewayResponse with status 401 (for
\* authorization_required: carrying the vault's authorizationUrl) or 500, and
\* every response has interceptorOutputVersion "1.0".
C10_HandlerAlwaysAnswers ==
    hresult # NotRun =>
        /\ hresult.interceptorOutputVersion = "1.0"
        /\ hresult.kind \in {"transformedGatewayRequest", "transformedGatewayResponse"}
        /\ hresult.kind = "transformedGatewayRequest" =>
              /\ vaultCalls # <<>>
              /\ vault.first.a = "response"
              /\ Truthy(vault.first.accessToken)
        /\ hresult.kind = "transformedGatewayResponse" =>
              /\ hresult.statusCode \in {401, 500}
              /\ hresult.error = "authorization_required" =>
                    /\ hresult.statusCode = 401
                    /\ \/ /\ vault.first.a = "response"
                          /\ hresult.authorizationUrl = vault.first.authorizationUrl
                       \/ /\ vault.first.a = "not_found"
                          /\ vault.second.a = "response"
                          /\ hresult.authorizationUrl = vault.second.authorizationUrl

(***************************************************************************)
(* Properties of the functions of interceptor.py (specification            *)
(* SpecFunctions).                                                         *)
(***************************************************************************)
Decoded == answer.fn = "decode_jwt_payload"

\* C15: two three-segment tokens with the same middle segment decode to the
\* same result, and handler passes the same user identifier to the vault for
\* both, whatever their header and signature segments are.
C15_DecodeDependsOnMiddleOnly ==
    (Decoded /\ Len(probe.a) = 3 /\ Len(probe.b) = 3 /\ probe.a[2] = probe.b[2]) =>
        /\ answer.a = answer.b
        /\ answer.callsA = answer.callsB

\* C15's case: tokens that differ in header and signature, whose claims
\* decode and reach the vault
C15_Witness ==
    /\ Decoded
    /\ Len(probe.a) = 3 /\ Len(probe.b) = 3
    /\ probe.a[2] = probe.b[2]
    /\ probe.a[1] # probe.b[1]
    /\ probe.a[3] # probe.b[3]
    /\ answer.a.ok
    /\ answer.callsA = <<"g-1">>

\* C16: decode_jwt_payload raises ValueError("Invalid JWT format") exactly
\* for the tokens that do not have three segments.
C16_FormatErrorIffNotThreeSegments ==
    /\ Decoded =>
          /\ (answer.a.error = "Invalid JWT format") <=> (Len(probe.a) # 3)
          /\ (answer.b.error = "Invalid JWT format") <=> (Len(probe.b) # 3)
    /\ answer.fn = "decode_issued" => answer.decoded.error # "Invalid JWT format"

\* C16's case: a token of four segments, and one of three that fails to
\* decode for another reason
C16_Witness ==
    /\ Decoded
    /\ Len(probe.a) = 4
    /\ answer.a.error = "Invalid JWT format"
    /\ Len(probe.b) = 3
    /\ ~answer.b.ok

\* C17: for a token whose middle segment is the URL-safe base64 of a JSON
\* object p without its "=", decode_jwt_payload adds 0 to 3 "=", which make
\* the length a multiple of 4, and returns p.
C17_StrippedPaddingRoundTrip ==
    answer.fn = "decode_issued" =>
        /\ answer.padding \in 0..3
        /\ (Len(probe.token[2].chars) + answer.padding) % 4 = 0
        /\ answer.decoded.ok
        /\ answer.decoded.claims.members = probe.payload

\* C17's case: a payload of two members whose base64 lost two "="
C17_Witness ==
    /\ answer.fn = "decode_issued"
    /\ DOMAIN probe.payload = {"a", "b"}
    /\ answer.padding = 2
    /\ answer.decoded.ok

\* the userId of the first entry of l whose providerName is "Google"
FirstGoogleUserId(l) ==
    IF \E i \in DOMAIN l : l[i].providerName = "Google"
    THEN l[CHOOSE i \in DOMAIN l :
                /\ l[i].providerName = "Google"
                /\ \A k \in 1..(i - 1) : l[k].providerName # "Google"].userId
    ELSE None

\* the entries of an identities claim ( <<>> when it is absent or empty)
Entries(c) ==
    CASE c.i = "list" -> c.items
      [] c.i = "text" -> c.parsed
      [] OTHER -> <<>>

\* an identities claim as the claim below means it: absent, empty, or a list
\* of objects, parsed or as JSON text
ListOfObjects(c) ==
    /\ c.i \in {"absent", "emptystr", "list", "text"}
    /\ \A i \in DOMAIN Entries(c) : Entries(c)[i].dict

\* C18: extract_google_user_id returns the userId of the first entry whose
\* providerName is "Google", None when the claim is absent or empty or has no
\* such entry, and the same for a JSON string as for the parsed list.
C18_FirstGoogleUserId ==
    (answer.fn = "extract_google_user_id" /\ ListOfObjects(probe.claim)) =>
        /\ answer.result.ok
        /\ answer.result.value = FirstGoogleUserId(Entries(probe.claim))
        /\ answer.twin = answer.result

\* C18's case: a JSON string whose second entry is the first Google one
C18_Witness ==
    /\ answer.fn = "extract_google_user_id"
    /\ probe.claim.i = "text"
    /\ Len(probe.claim.parsed) = 2
    /\ probe.claim.parsed[1].providerName = "Facebook"
    /\ answer.result = Ok("g-1")

\* C19: _inject_token_response returns a transformedGatewayRequest with the
\* request's body as it came (an empty dict if it had none) and the single
\* header Authorization: Bearer <access token>, and leaves the event as it was.
C19_InjectKeepsBodyAndSetsOneHeader ==
    [][probe.fn = "_inject_token_response" =>
          /\ probe' = probe
          /\ answer'.result.kind = "transformedGatewayRequest"
          /\ answer'.result.body = (IF probe.event.body = None THEN EmptyDict
                                     ELSE probe.event.body)
          /\ answer'.result.headers
                = {<<"Authorization", "Bearer " \o probe.access_token>>}]_vars

\* C19's case: an event that came with a bearer JWT and a body
C19_Witness ==
    /\ answer.fn = "_inject_token_response"
    /\ probe.event.Authorization.h = "bearer"
    /\ probe.event.body = "body-2"
    /\ probe.access_token = "at-2"

\* the segments of the bearer token of the event
BearerToken == AuthHeader(event).token

\* the user the claims c name: the userId of the first Google identity when
\* there is one, the sub claim otherwise
IdentifiedUser(c) ==
    LET g == FirstGoogleUserId(Entries(c.identities)) IN
    IF Truthy(g) THEN g ELSE c.sub

\* C26: handler calls get_resource_oauth2_token only after it found an
\* Authorization header starting with "Bearer ", decoded the payload of its
\* JWT and obtained a non-empty user identifier, and the userIdentifier of
\* every call is the federated Google userId when one is present and the sub
\* claim otherwise.
C26_VaultCalledOnlyForIdentifiedUser ==
    vaultCalls # <<>> =>
        /\ AuthHeader(event).h = "bearer"
        /\ Len(BearerToken) = 3
        /\ BearerToken[2].seg = "b64"
        /\ BearerToken[2].json.j = "object"
        /\ Truthy(IdentifiedUser(BearerToken[2].json))
        /\ \A k \in DOMAIN vaultCalls : vaultCalls[k] = IdentifiedUser(BearerToken[2].json)

\* a token with a sub claim and a Google identity: the vault is asked for
\* the Google userId
C26_Witness ==
    /\ hresult # NotRun
    /\ vaultCalls = <<"g-1">>
    /\ AuthHeader(event).h = "bearer"
    /\ BearerToken[2].json.sub = "sub-1"
    /\ BearerToken[2].json.identities.i = "text"

\* a get_resource_oauth2_token call of this invocation raised
SomeCallRaised ==
    /\ vaultCalls # <<>>
    /\ \/ vault.first.a # "response"
       \/ Len(vaultCalls) = 2 /\ vault.second.a # "response"

\* C27, as claimed: handler calls get_resource_oauth2_token at most twice,
\* the second time only after the first raised ResourceNotFoundException, and
\* whatever either call raises it returns a 500 response.
\* Violated: when the first call raises ResourceNotFoundException and the
\* second returns, handler answers 401 authorization_required.
C27_AnyRaiseGives500 ==
    /\ Len(vaultCalls) <= 2
    /\ Len(vaultCalls) = 2 => vault.first.a = "not_found"
    /\ SomeCallRaised =>
           hresult.kind = "transformedGatewayResponse" /\ hresult.statusCode = 500

\* C27, amended: handler calls get_resource_oauth2_token at most twice, the
\* second time exactly when the first raised ResourceNotFoundException; no
\* exception of either call leaves handler: an exception of the first call
\* other than ResourceNotFoundException and any exception of the second call
\* give a 500 response, and a second call that returns gives the 401
\* authorization_required response with its authorizationUrl.
C27_RaiseGives500UnlessRetried ==
    vaultCalls # <<>> =>
        /\ Len(vaultCalls) <= 2
        /\ Len(vaultCalls) = 2 <=> vault.first.a = "not_found"
        /\ hresult.kind \in {"transformedGatewayRequest", "transformedGatewayResponse"}
        /\ (vault.first.a = "error" \/ (vault.first.a = "not_found" /\ vault.second.a # "response"))
              => hresult.kind = "transformedGatewayResponse" /\ hresult.statusCode = 500
        /\ (vault.first.a = "not_found" /\ vault.second.a = "response")
              => /\ hresult.statusCode = 401
                 /\ hresult.error = "authorization_required"
                 /\ hresult.authorizationUrl = vault.second.authorizationUrl

\* both calls raised ResourceNotFoundException: two calls, a 500 response
C27_Witness ==
    /\ Len(vaultCalls) = 2
    /\ vault.first.a = "not_found"
    /\ vault.second.a = "not_found"
    /\ hresult.statusCode = 500
    /\ hresult.error = "Failed to get authorization URL"

(***************************************************************************)
(* Properties of Part IV (specification SpecTools).                        *)
(***************************************************************************)
\* the gateway's answer to the client's first request is a JSON-RPC error
FirstIsError == call.http.status_code = 200 /\ call.http.isJson /\ call.http.json.shape = "error"

\* that error has the elicitation code and its data carries an entry
IsElicitation ==
    /\ call.http.json.code = ElicitationCode
    /\ elicitations_of(call.http.json) # <<>>

FirstEntry == elicitations_of(call.http.json)[1]

\* the client made its request: the MCP server's call_gateway_tool with a
\* bearer token, greet_user, or handle_oauth_flow
ClientAsked ==
    \/ ret.tool = "call_gateway_tool" /\ ~Falsy(bearer_token_of(call.context))
    \/ ret.tool \in {"greet_user", "handle_oauth_flow"}

\* the client reports url as the authorization URL to visit
ReportsUrl(url) ==
    CASE ret.tool = "call_gateway_tool" ->
            ret.result.r = "oauth_required" /\ ret.result.auth_url = url
      [] ret.tool = "greet_user" ->
            ~ret.out.raised /\ ret.out.status = "oauth_required" /\ ret.out.auth_url = url
      [] ret.tool = "handle_oauth_flow" ->
            ret.flow.d = "wait" /\ ret.flow.auth_url = url
      [] OTHER -> FALSE

\* the client reports the gateway's error, and no authorization URL
ReportsError ==
    CASE ret.tool = "call_gateway_tool" ->
            ret.result.r = "passed" /\ ret.result.json = call.http.json
      [] ret.tool = "greet_user" ->
            ~ret.out.raised /\ ret.out.status = "error" /\ ret.out.auth_url = None
      [] ret.tool = "handle_oauth_flow" ->
            ret.flow.d = "failed" /\ ret.flow.auth_url = None
      [] OTHER -> FALSE

\* C11, as claimed: each client takes a JSON-RPC error for an OAuth
\* elicitation exactly when its code is -32042 and its data carries at least
\* one elicitation entry, and then reports the url of the first entry as the
\* authorization URL; every other error response it reports as an error.
\* Violated: greet_user tests only that data has the "elicitations" key and
\* raises IndexError on an empty list; handle_oauth_flow reports a failure
\* when the first url has no request_uri.
C11_ElicitationIffCodeAndEntry ==
    (ClientAsked /\ FirstIsError) =>
        IF IsElicitation
        THEN (FirstEntry.hasUrl /\ FirstEntry.hasId) => ReportsUrl(FirstEntry.url)
        ELSE ReportsError

\* C11 for the MCP server's call_gateway_tool alone, where it holds
C11_ServerClassifies ==
    (ret.tool = "call_gateway_tool" /\ ClientAsked /\ FirstIsError) =>
        IF IsElicitation
        THEN FirstEntry.hasUrl => ReportsUrl(FirstEntry.url)
        ELSE ReportsError

\* the outcomes of the gateway call that a GitHub tool is specified for: no
\* bearer token, a non-200 status, an elicitation, a JSON-RPC error, a result
\* of the content the tool reads, a dict with neither member
ListedOutcome ==
    LET c == OrEmpty(call.context)
        j == call.http.json IN
    \/ Falsy(bearer_token_of(c))
    \/ call.http.status_code # 200
    \/ /\ call.http.isJson
       /\ \/ j.shape = "error" /\ (elicitations_of(j) # <<>> => elicitations_of(j)[1].hasUrl)
          \/ j.shape = "result" /\ j.content = (IF call.tool = "get_user_repos" THEN "repos" ELSE "profile")
          \/ j.shape = "other"

\* C12, as claimed: for every outcome of the gateway call, get_user_repos and
\* get_user_profile return a JSON string whose status is success,
\* oauth_required or error, and never raise.
\* Violated: without a bearer token and on a non-200 status call_gateway_tool
\* returns a dict whose "error" is a str, and the tools call .get on it.
C12_ToolsAlwaysReturnStatus ==
    (ret.tool \in {"get_user_repos", "get_user_profile"} /\ ListedOutcome) =>
        /\ ~ret.out.raised
        /\ ret.out.status \in {"success", "oauth_required", "error"}

\* s contains word
Mentions(s, word) ==
    \E i \in 1..Len(s) : i + Len(word) - 1 <= Len(s) /\ SubSeq(s, i, i + Len(word) - 1) = word

SubscriptionsPosted ==
    \E i \in DOMAIN ret.posts : ret.posts[i].tool_name = "YouTubeTarget___getSubscriptions"

HasErrorMember(http) == agent_call_gateway_tool(http).shape = "error"

\* C28: greet_user issues the getSubscriptions call only after the
\* getChannels call returned a response without an error member; it returns
\* status success only if both calls returned without an error member; and a
\* status it returns is one of oauth_required, error, success.
C28_SubscriptionsAfterChannels ==
    (ret # NoReturn /\ ret.tool = "greet_user") =>
        /\ ret.posts # <<>>
        /\ ret.posts[1].tool_name = "YouTubeTarget___getChannels"
        /\ SubscriptionsPosted =>
              /\ ~HasErrorMember(call.http)
              /\ Len(ret.posts) = 2
              /\ ret.posts[2].tool_name = "YouTubeTarget___getSubscriptions"
        /\ ~ret.out.raised =>
              /\ ret.out.status \in {"oauth_required", "error", "success"}
              /\ ret.out.status = "success" =>
                    /\ ~HasErrorMember(call.http)
                    /\ ~HasErrorMember(call.http2)
                    /\ SubscriptionsPosted

C28_Witness ==
    /\ ret # NoReturn
    /\ ret.tool = "greet_user"
    /\ ~ret.out.raised
    /\ ret.out.status = "success"
    /\ Len(ret.posts) = 2
    /\ ~HasErrorMember(call.http)
    /\ ~HasErrorMember(call.http2)

(***************************************************************************)
(* Properties of Part V (specification SpecCallback).                      *)
(***************************************************************************)
\* C21, as claimed: after store_token_in_oauth2_callback_server(identity_client, t)
\* the OAuth2CallbackServer that serves /oauth2/callback holds
\* user_token_identifier = t, and the next /oauth2/callback completes the
\* OAuth flow with t.
\* Violated: the function sets the attribute of an object it has just
\* constructed and drops; the serving object keeps what it had.
C21_StoredTokenReachesCallback ==
    /\ lastOp.op = "store_token_in_oauth2_callback_server" =>
           \A i \in DOMAIN servers :
               servers[i].serving => servers[i].user_token_identifier = lastOp.t
    /\ (lastOp.op = "_handle_oauth2_callback"
         /\ lastOp.after = "store_token_in_oauth2_callback_server") =>
           flows[Len(flows)].user_token_identifier = lastOp.t

\* C24, as claimed: for any interleaving of Cognito logins and
\* /oauth2/callback requests of two users on one server, every
\* complete_resource_token_auth call binds the session to the access token of
\* the user whose login made the gateway elicit it.
\* Violated: the server keeps one access_token for all users, the one of the
\* login handled last.
C24_SessionBoundToItsUser ==
    \A k \in DOMAIN bindings :
        bindings[k].userToken = AccessTokenOf(elicited[bindings[k].sessionUri])

(***************************************************************************)
(* Properties of config.py (specification SpecFunctions).                  *)
(***************************************************************************)
\* the required variables that are unset or empty, by their position
Missing(environ) == {i \in DOMAIN RequiredVars : Falsy(environ[RequiredVars[i].env_var])}

FirstMissing(environ) == CHOOSE i \in Missing(environ) : \A j \in Missing(environ) : i <= j

\* C22: load_config returns a dict with exactly the keys region,
\* google_client_id, google_client_secret and callback_url, each with the
\* value of its variable, when AWS_REGION, GOOGLE_CLIENT_ID,
\* GOOGLE_CLIENT_SECRET and CALLBACK_URL are all non-empty; otherwise it
\* raises ValueError naming the first of them, in that order, that is unset
\* or empty.  It never returns a dict with fewer keys.
C22_LoadConfigAllOrError ==
    answer.fn = "load_config" =>
        IF Missing(probe.environ) = {}
        THEN /\ ~answer.result.raised
             /\ answer.result.config =
                    {<<"region", probe.environ["AWS_REGION"]>>,
                     <<"google_client_id", probe.environ["GOOGLE_CLIENT_ID"]>>,
                     <<"google_client_secret", probe.environ["GOOGLE_CLIENT_SECRET"]>>,
                     <<"callback_url", probe.environ["CALLBACK_URL"]>>}
        ELSE /\ answer.result.raised
             /\ answer.result.error = "Missing required environment variable: "
                    \o RequiredVars[FirstMissing(probe.environ)].env_var
             /\ FirstMissing(probe.environ) =
                    (CASE probe.environ["AWS_REGION"] \in {None, ""} -> 1
                       [] OTHER -> CASE probe.environ["GOOGLE_CLIENT_ID"] \in {None, ""} -> 2
                       [] OTHER -> CASE probe.environ["GOOGLE_CLIENT_SECRET"] \in {None, ""} -> 3
                       [] OTHER -> 4)

\* GOOGLE_CLIENT_ID is empty and CALLBACK_URL unset: the error names the former
C22_Witness ==
    /\ answer.fn = "load_config"
    /\ probe.environ["AWS_REGION"] = "val:AWS_REGION"
    /\ probe.environ["GOOGLE_CLIENT_ID"] = ""
    /\ probe.environ["CALLBACK_URL"] = None
    /\ answer.result.raised
    /\ answer.result.error = "Missing required environment variable: GOOGLE_CLIENT_ID"

\* C23: for every configuration mapping of strings to strings, what
\* json.load reads from the config.json that save_config wrote is a mapping
\* equal to the original (the same keys with the same values).
C23_ConfigRoundTrip ==
    answer.fn = "save_config" =>
        /\ answer.loaded.ok
        /\ answer.loaded.value = probe.config

\* a key holding a backslash followed by n, a value ending in a backslash
C23_Witness ==
    /\ answer.fn = "save_config"
    /\ Len(probe.config) = 2
    /\ probe.config[1].key = <<"\\", "n">>
    /\ probe.config[1].value = <<"<e-acute>", "\\">>
    /\ probe.config[2].key = <<"<LF>">>
    /\ answer.loaded.value = probe.config
    /\ Len(answer.file) > Len(probe.config[1].key) + Len(probe.config[1].value) + 20

====
